---- MODULE Spec2Model ----
(***************************************************************************)
(* Composable Binary Encoding (CBE): the contiguous Encode/Decode of       *)
(* cbe/cbe.go and the streaming Encoder/Decoder of cbe/cbs.go.             *)
(*                                                                         *)
(* A Go []byte is kept run-length encoded: a sequence of runs [b, n]       *)
(* (byte b repeated n >= 1 times) in which neighbouring runs carry         *)
(* different bytes.  The form is canonical, so equality of two values is   *)
(* equality of the byte strings, and blobs of several megabytes stay       *)
(* small.  All lengths and offsets are the real ones of the code.          *)
(***************************************************************************)
EXTENDS Integers, Sequences, FiniteSets, TLC

(***************************************************************************)
(* Bounds of the exploration.                                              *)
(***************************************************************************)
\* number of blobs one behaviour encodes one after another
MaxBlobs == 2

(***************************************************************************)
(* Program constants.                                                      *)
(***************************************************************************)
MinChunkLen == 16384
MaxChunkLen == 2113535
defaultChunkLen == MinChunkLen

(***************************************************************************)
(* []byte                                                                  *)
(***************************************************************************)
Run(b, n) == [b |-> b, n |-> n]

\* make([]byte, n) filled with b
Rep(b, n) == IF n = 0 THEN <<>> ELSE <<Run(b, n)>>

RECURSIVE BLen(_)
\* len(s)
BLen(s) == IF s = <<>> THEN 0 ELSE Head(s).n + BLen(Tail(s))

\* append(a, b...)
Cat(a, b) ==
    IF a = <<>> THEN b
    ELSE IF b = <<>> THEN a
    ELSE IF a[Len(a)].b = b[1].b
         THEN SubSeq(a, 1, Len(a) - 1)
                \o <<Run(b[1].b, a[Len(a)].n + b[1].n)>> \o Tail(b)
         ELSE a \o b

RECURSIVE Lit(_)
\* []byte{q[1], q[2], ...}
Lit(q) == IF q = <<>> THEN <<>> ELSE Cat(Rep(Head(q), 1), Lit(Tail(q)))

RECURSIVE At(_, _)
\* s[i], 0 <= i < len(s)
At(s, i) == IF i < Head(s).n THEN Head(s).b ELSE At(Tail(s), i - Head(s).n)

RECURSIVE Take(_, _)
\* s[:n], clipped to len(s)
Take(s, n) ==
    IF n <= 0 \/ s = <<>> THEN <<>>
    ELSE IF Head(s).n <= n THEN <<Head(s)>> \o Take(Tail(s), n - Head(s).n)
    ELSE <<Run(Head(s).b, n)>>

RECURSIVE Drop(_, _)
\* s[n:], clipped to len(s)
Drop(s, n) ==
    IF n <= 0 \/ s = <<>> THEN s
    ELSE IF Head(s).n <= n THEN Drop(Tail(s), n - Head(s).n)
    ELSE <<Run(Head(s).b, Head(s).n - n)>> \o Tail(s)

\* s[lo:hi]
Slice(s, lo, hi) == Take(Drop(s, lo), hi - lo)

\* the conversion byte(x) of a non-negative int
byte(x) == x % 256

Min(a, b) == IF a < b THEN a ELSE b

(***************************************************************************)
(* Streaming Encoder (cbe/cbs.go): one iteration of the ReadFrom loop.     *)
(***************************************************************************)
\* ReadFull that reports the end of the source with the bytes that reach it
ReadFullPeek(r, cap) ==
    LET l == Min(BLen(r), cap)
    IN  [l    |-> l,
         err  |-> IF l = cap /\ BLen(r) > cap THEN "nil"
                  ELSE IF l = 0 THEN "EOF" ELSE "ErrUnexpectedEOF",
         data |-> Take(r, l),
         rest |-> Drop(r, l)]

\* io.ReadFull(r, buf[4:]) on a source holding the bytes r, cap = len(buf)-4
ReadFull(r, cap) ==
    LET l == Min(BLen(r), cap)
    IN  [l    |-> l,
         err  |-> IF l = cap THEN "nil"
                  ELSE IF l = 0 THEN "EOF" ELSE "ErrUnexpectedEOF",
         data |-> Take(r, l),
         rest |-> Drop(r, l)]

\* chunkHeader with the loop not continued after a partial chunk
chunkHeaderStop(hdr, l, err, chunkLen, data) ==
    IF l = chunkLen /\ err = "nil"
    THEN LET n == l - 16384
         IN  [hdr  |-> <<129, byte(96 + byte(n \div 65536)),
                         byte(n \div 256), byte(n)>>,
              h |-> 0, more |-> FALSE]
    ELSE IF l = 1 /\ At(data, 0) < 128
    THEN [hdr |-> hdr, h |-> 4, more |-> FALSE]
    ELSE IF l < 128
    THEN [hdr |-> [hdr EXCEPT ![4] = byte(128 + l)], h |-> 3, more |-> FALSE]
    ELSE IF l < 16384 + 128
    THEN LET n == l - 128
         IN  [hdr  |-> [hdr EXCEPT ![2] = 129, ![3] = byte(n \div 256),
                                   ![4] = byte(n)],
              h |-> 1, more |-> FALSE]
    ELSE LET n == l - 16384
         IN  [hdr  |-> <<129, byte(64 + byte(n \div 65536)),
                         byte(n \div 256), byte(n)>>,
              h |-> 0, more |-> FALSE]

\* chunkHeader with n >> 8 in place of n >> 16 in the second header byte
chunkHeaderShift(hdr, l, err, chunkLen, data) ==
    IF l = chunkLen /\ err = "nil"
    THEN LET n == l - 16384
         IN  [hdr  |-> <<129, byte(96 + byte(n \div 256)),
                         byte(n \div 256), byte(n)>>,
              h |-> 0, more |-> TRUE]
    ELSE IF l = 1 /\ At(data, 0) < 128
    THEN [hdr |-> hdr, h |-> 4, more |-> FALSE]
    ELSE IF l < 128
    THEN [hdr |-> [hdr EXCEPT ![4] = byte(128 + l)], h |-> 3, more |-> FALSE]
    ELSE IF l < 16384 + 128
    THEN LET n == l - 128
         IN  [hdr  |-> [hdr EXCEPT ![2] = 129, ![3] = byte(n \div 256),
                                   ![4] = byte(n)],
              h |-> 1, more |-> FALSE]
    ELSE LET n == l - 16384
         IN  [hdr  |-> <<129, byte(64 + byte(n \div 256)),
                         byte(n \div 256), byte(n)>>,
              h |-> 0, more |-> FALSE]

\* the header branch of ReadFrom: hdr is buf[0:4] before, data is buf[4:4+l]
chunkHeader(hdr, l, err, chunkLen, data) ==
    IF l = chunkLen /\ err = "nil"
    THEN LET n == l - 16384
         IN  [hdr  |-> <<129, byte(96 + byte(n \div 65536)),
                         byte(n \div 256), byte(n)>>,
              h |-> 0, more |-> TRUE]
    ELSE IF l = 1 /\ At(data, 0) < 128
    THEN [hdr |-> hdr, h |-> 4, more |-> FALSE]
    ELSE IF l < 128
    THEN [hdr |-> [hdr EXCEPT ![4] = byte(128 + l)], h |-> 3, more |-> FALSE]
    ELSE IF l < 16384 + 128
    THEN LET n == l - 128
         IN  [hdr  |-> [hdr EXCEPT ![2] = 129, ![3] = byte(n \div 256),
                                   ![4] = byte(n)],
              h |-> 1, more |-> FALSE]
    ELSE LET n == l - 16384
         IN  [hdr  |-> <<129, byte(64 + byte(n \div 65536)),
                         byte(n \div 256), byte(n)>>,
              h |-> 0, more |-> FALSE]

\* buf[h:4+l], the bytes one iteration hands to the sink
chunkBytesSwapped(hdr, h, data) == Cat(data, Lit(SubSeq(hdr, h + 1, 4)))

chunkBytes(hdr, h, data) == Cat(Lit(SubSeq(hdr, h + 1, 4)), data)

RECURSIVE ReadFromAll(_, _, _, _)
\* ReadFrom on a bytes.Reader and a bytes.Buffer, neither of which fails:
\* the content of the sink w when the loop has ended
ReadFromAll(w, hdr, chunkLen, r) ==
    LET rd == ReadFull(r, chunkLen)
        ch == chunkHeader(hdr, rd.l, rd.err, chunkLen, rd.data)
        w2 == Cat(w, chunkBytes(ch.hdr, ch.h, rd.data))
    IN  IF ch.more THEN ReadFromAll(w2, ch.hdr, chunkLen, rd.rest) ELSE w2

(***************************************************************************)
(* Contiguous Encode and Decode (cbe/cbe.go).                              *)
(***************************************************************************)
\* Encode with the one-byte header kept up to 64 bytes of content
EncodeOffByOne(dst, src) ==
    LET n == BLen(src)
    IN  IF n = 1 /\ At(src, 0) < 128 THEN Cat(dst, src)
        ELSE IF n <= 64 THEN Cat(Cat(dst, Lit(<<byte(128 + n)>>)), src)
        ELSE IF n < 16448
        THEN LET m == n - 64
             IN  Cat(Cat(dst, Lit(<<byte(192 + byte(m \div 256)), byte(m)>>)),
                     src)
        ELSE IF n < 4210752
        THEN LET m == n - 16448
             IN  Cat(Cat(dst, Lit(<<129, byte(0 + byte(m \div 65536)),
                                    byte(m \div 256), byte(m)>>)), src)
        ELSE ReadFromAll(dst, <<0, 0, 0, 0>>, MaxChunkLen, src)

Encode(dst, src) ==
    LET n == BLen(src)
    IN  IF n = 1 /\ At(src, 0) < 128 THEN Cat(dst, src)
        ELSE IF n < 64 THEN Cat(Cat(dst, Lit(<<byte(128 + n)>>)), src)
        ELSE IF n < 16448
        THEN LET m == n - 64
             IN  Cat(Cat(dst, Lit(<<byte(192 + byte(m \div 256)), byte(m)>>)),
                     src)
        ELSE IF n < 4210752
        THEN LET m == n - 16448
             IN  Cat(Cat(dst, Lit(<<129, byte(0 + byte(m \div 65536)),
                                    byte(m \div 256), byte(m)>>)), src)
        ELSE ReadFromAll(dst, <<0, 0, 0, 0>>, MaxChunkLen, src)

\* decodeHeader with 0x81 read as the one-byte header of a 1-byte payload
decodeHeaderNo129(buf) ==
    LET n  == BLen(buf)
        b0 == At(buf, 0)
        b1 == At(buf, 1)
        b2 == At(buf, 2)
        b3 == At(buf, 3)
        eof == [ofs |-> 0, n |-> 0, part |-> FALSE, err |-> "EOF"]
    IN  IF n = 0 THEN eof
        ELSE IF b0 < 128
        THEN [ofs |-> 0, n |-> 1, part |-> FALSE, err |-> "nil"]
        ELSE IF b0 < 128 + 64
        THEN [ofs |-> 1, n |-> b0 - 128, part |-> FALSE, err |-> "nil"]
        ELSE IF n < 2 THEN eof
        ELSE IF b0 = 129 /\ b1 >= 128
        THEN [ofs |-> 1, n |-> 1, part |-> FALSE, err |-> "nil"]
        ELSE IF b0 >= 128 + 64
        THEN [ofs |-> 2, n |-> 64 + (b0 % 64) * 256 + b1,
              part |-> FALSE, err |-> "nil"]
        ELSE IF n < 4 THEN eof
        ELSE [ofs |-> 4,
              n |-> 16448 + (b1 % 64) * 65536 + b2 * 256 + b3,
              part |-> b1 >= 64, err |-> "nil"]

\* decodeHeader with the four-byte header read as the streaming Decoder
\* reads it
decodeHeaderStream(buf) ==
    LET n  == BLen(buf)
        b0 == At(buf, 0)
        b1 == At(buf, 1)
        b2 == At(buf, 2)
        b3 == At(buf, 3)
        eof == [ofs |-> 0, n |-> 0, part |-> FALSE, err |-> "EOF"]
    IN  IF n = 0 THEN eof
        ELSE IF b0 < 128
        THEN [ofs |-> 0, n |-> 1, part |-> FALSE, err |-> "nil"]
        ELSE IF b0 # 129 /\ b0 < 128 + 64
        THEN [ofs |-> 1, n |-> b0 - 128, part |-> FALSE, err |-> "nil"]
        ELSE IF n < 2 THEN eof
        ELSE IF b0 = 129 /\ b1 >= 128
        THEN [ofs |-> 1, n |-> 1, part |-> FALSE, err |-> "nil"]
        ELSE IF b0 >= 128 + 64
        THEN [ofs |-> 2, n |-> 64 + (b0 % 64) * 256 + b1,
              part |-> FALSE, err |-> "nil"]
        ELSE IF n < 4 THEN eof
        ELSE [ofs |-> 4,
              n |-> 16384 + (b1 % 32) * 65536 + b2 * 256 + b3,
              part |-> b1 >= 96, err |-> "nil"]

decodeHeader(buf) ==
    LET n  == BLen(buf)
        b0 == At(buf, 0)
        b1 == At(buf, 1)
        b2 == At(buf, 2)
        b3 == At(buf, 3)
        eof == [ofs |-> 0, n |-> 0, part |-> FALSE, err |-> "EOF"]
    IN  IF n = 0 THEN eof
        ELSE IF b0 < 128
        THEN [ofs |-> 0, n |-> 1, part |-> FALSE, err |-> "nil"]
        ELSE IF b0 # 129 /\ b0 < 128 + 64
        THEN [ofs |-> 1, n |-> b0 - 128, part |-> FALSE, err |-> "nil"]
        ELSE IF n < 2 THEN eof
        ELSE IF b0 = 129 /\ b1 >= 128
        THEN [ofs |-> 1, n |-> 1, part |-> FALSE, err |-> "nil"]
        ELSE IF b0 >= 128 + 64
        THEN [ofs |-> 2, n |-> 64 + (b0 % 64) * 256 + b1,
              part |-> FALSE, err |-> "nil"]
        ELSE IF n < 4 THEN eof
        ELSE [ofs |-> 4,
              n |-> 16448 + (b1 % 64) * 65536 + b2 * 256 + b3,
              part |-> b1 >= 64, err |-> "nil"]

DecodeLoopNoPart(buf, content, isNil) ==
    LET h == decodeHeader(buf)
        fail(e) == [content |-> <<>>, remainder |-> <<>>, err |-> e,
                    owned |-> FALSE]
    IN  IF h.err # "nil" THEN fail(h.err)
        ELSE IF BLen(buf) < h.ofs + h.n THEN fail("EOF")
        ELSE [content |-> Slice(buf, h.ofs, h.ofs + h.n),
              remainder |-> Drop(buf, h.ofs + h.n), err |-> "nil",
              owned |-> FALSE]

RECURSIVE DecodeLoopCopy(_, _, _)
\* the loop of Decode appending the payload of a lone final chunk as well
DecodeLoopCopy(buf, content, isNil) ==
    LET h == decodeHeader(buf)
        fail(e) == [content |-> <<>>, remainder |-> <<>>, err |-> e,
                    owned |-> FALSE]
    IN  IF h.err # "nil" THEN fail(h.err)
        ELSE IF BLen(buf) < h.ofs + h.n THEN fail("EOF")
        ELSE LET c2 == Cat(content, Slice(buf, h.ofs, h.ofs + h.n))
                 b2 == Drop(buf, h.ofs + h.n)
             IN  IF ~h.part
                 THEN [content |-> c2, remainder |-> b2, err |-> "nil",
                       owned |-> TRUE]
                 ELSE DecodeLoopCopy(b2, c2, isNil /\ h.n = 0)

RECURSIVE DecodeLoop(_, _, _)
\* the loop of Decode; isNil tells whether content is still the nil slice
DecodeLoop(buf, content, isNil) ==
    LET h == decodeHeader(buf)
        fail(e) == [content |-> <<>>, remainder |-> <<>>, err |-> e,
                    owned |-> FALSE]
    IN  IF h.err # "nil" THEN fail(h.err)
        ELSE IF BLen(buf) < h.ofs + h.n THEN fail("EOF")
        ELSE IF ~h.part /\ isNil
        THEN [content |-> Slice(buf, h.ofs, h.ofs + h.n),
              remainder |-> Drop(buf, h.ofs + h.n), err |-> "nil",
              owned |-> FALSE]
        ELSE LET c2 == Cat(content, Slice(buf, h.ofs, h.ofs + h.n))
                 b2 == Drop(buf, h.ofs + h.n)
             IN  IF ~h.part
                 THEN [content |-> c2, remainder |-> b2, err |-> "nil",
                       owned |-> TRUE]
                 ELSE DecodeLoop(b2, c2, isNil /\ h.n = 0)

Decode(buf) == DecodeLoop(buf, <<>>, TRUE)

(***************************************************************************)
(* Streaming Decoder (cbe/cbs.go).                                         *)
(***************************************************************************)
\* header with the length offset 64 for the three-byte header
headerOffset64(r) ==
    LET eof(rest) == [n |-> 0, part |-> FALSE, err |-> "EOF", rest |-> rest]
        r1 == Drop(r, 1)
        r2 == Drop(r, 2)
        r3 == Drop(r, 3)
        r4 == Drop(r, 4)
        h0 == At(r, 0)
        h1 == At(r, 1)
        h2 == At(r, 2)
        h3 == At(r, 3)
    IN  IF r = <<>> THEN eof(r)
        ELSE IF h0 < 128
        THEN [n |-> 1, part |-> FALSE, err |-> "nil", rest |-> r]
        ELSE IF h0 # 129
        THEN [n |-> h0 - 128, part |-> FALSE, err |-> "nil", rest |-> r1]
        ELSE IF r1 = <<>> THEN eof(r1)
        ELSE IF h1 >= 128
        THEN [n |-> 1, part |-> FALSE, err |-> "nil", rest |-> r1]
        ELSE IF r2 = <<>> THEN eof(r2)
        ELSE IF h1 < 64
        THEN [n |-> 64 + h1 * 256 + h2, part |-> FALSE, err |-> "nil",
              rest |-> r3]
        ELSE IF r3 = <<>> THEN eof(r3)
        ELSE [n |-> 16384 + (h1 % 32) * 65536 + h2 * 256 + h3,
              part |-> ~(h1 < 96), err |-> "nil", rest |-> r4]

\* header without the UnreadByte of the inline payload byte
headerNoUnread(r) ==
    LET eof(rest) == [n |-> 0, part |-> FALSE, err |-> "EOF", rest |-> rest]
        r1 == Drop(r, 1)
        r2 == Drop(r, 2)
        r3 == Drop(r, 3)
        r4 == Drop(r, 4)
        h0 == At(r, 0)
        h1 == At(r, 1)
        h2 == At(r, 2)
        h3 == At(r, 3)
    IN  IF r = <<>> THEN eof(r)
        ELSE IF h0 < 128
        THEN [n |-> 1, part |-> FALSE, err |-> "nil", rest |-> r1]
        ELSE IF h0 # 129
        THEN [n |-> h0 - 128, part |-> FALSE, err |-> "nil", rest |-> r1]
        ELSE IF r1 = <<>> THEN eof(r1)
        ELSE IF h1 >= 128
        THEN [n |-> 1, part |-> FALSE, err |-> "nil", rest |-> r2]
        ELSE IF r2 = <<>> THEN eof(r2)
        ELSE IF h1 < 64
        THEN [n |-> 128 + h1 * 256 + h2, part |-> FALSE, err |-> "nil",
              rest |-> r3]
        ELSE IF r3 = <<>> THEN eof(r3)
        ELSE [n |-> 16384 + (h1 % 32) * 65536 + h2 * 256 + h3,
              part |-> ~(h1 < 96), err |-> "nil", rest |-> r4]

\* header with the six low bits of the second byte taken as length bits
headerMask3F(r) ==
    LET eof(rest) == [n |-> 0, part |-> FALSE, err |-> "EOF", rest |-> rest]
        r1 == Drop(r, 1)
        r2 == Drop(r, 2)
        r3 == Drop(r, 3)
        r4 == Drop(r, 4)
        h0 == At(r, 0)
        h1 == At(r, 1)
        h2 == At(r, 2)
        h3 == At(r, 3)
    IN  IF r = <<>> THEN eof(r)
        ELSE IF h0 < 128
        THEN [n |-> 1, part |-> FALSE, err |-> "nil", rest |-> r]
        ELSE IF h0 # 129
        THEN [n |-> h0 - 128, part |-> FALSE, err |-> "nil", rest |-> r1]
        ELSE IF r1 = <<>> THEN eof(r1)
        ELSE IF h1 >= 128
        THEN [n |-> 1, part |-> FALSE, err |-> "nil", rest |-> r1]
        ELSE IF r2 = <<>> THEN eof(r2)
        ELSE IF h1 < 64
        THEN [n |-> 128 + h1 * 256 + h2, part |-> FALSE, err |-> "nil",
              rest |-> r3]
        ELSE IF r3 = <<>> THEN eof(r3)
        ELSE [n |-> 16384 + (h1 % 64) * 65536 + h2 * 256 + h3,
              part |-> ~(h1 < 96), err |-> "nil", rest |-> r4]

\* Decoder.header on a bufio.Reader holding the bytes r; rest is what the
\* reader holds afterwards (UnreadByte puts the byte just read back)
header(r) ==
    LET eof(rest) == [n |-> 0, part |-> FALSE, err |-> "EOF", rest |-> rest]
        r1 == Drop(r, 1)
        r2 == Drop(r, 2)
        r3 == Drop(r, 3)
        r4 == Drop(r, 4)
        h0 == At(r, 0)
        h1 == At(r, 1)
        h2 == At(r, 2)
        h3 == At(r, 3)
    IN  IF r = <<>> THEN eof(r)
        ELSE IF h0 < 128
        THEN [n |-> 1, part |-> FALSE, err |-> "nil", rest |-> r]
        ELSE IF h0 # 129
        THEN [n |-> h0 - 128, part |-> FALSE, err |-> "nil", rest |-> r1]
        ELSE IF r1 = <<>> THEN eof(r1)
        ELSE IF h1 >= 128
        THEN [n |-> 1, part |-> FALSE, err |-> "nil", rest |-> r1]
        ELSE IF r2 = <<>> THEN eof(r2)
        ELSE IF h1 < 64
        THEN [n |-> 128 + h1 * 256 + h2, part |-> FALSE, err |-> "nil",
              rest |-> r3]
        ELSE IF r3 = <<>> THEN eof(r3)
        ELSE [n |-> 16384 + (h1 % 32) * 65536 + h2 * 256 + h3,
              part |-> ~(h1 < 96), err |-> "nil", rest |-> r4]

\* CopyN reporting a source that ends early as io.ReadFull does
CopyNUnexpected(r, n) ==
    LET wn == Min(BLen(r), n)
    IN  [wn |-> wn, data |-> Take(r, wn), rest |-> Drop(r, wn),
         err |-> IF wn = n THEN "nil"
                 ELSE IF wn = 0 THEN "EOF" ELSE "ErrUnexpectedEOF"]

\* io.CopyN(w, d.r, n) into a sink that accepts everything
CopyN(r, n) ==
    LET wn == Min(BLen(r), n)
    IN  [wn |-> wn, data |-> Take(r, wn), rest |-> Drop(r, wn),
         err |-> IF wn < n THEN "EOF" ELSE "nil"]

RECURSIVE WriteToAll(_, _)
\* Decoder.Bytes on a reader holding r: the WriteTo loop run to its end,
\* with what it leaves in the reader and the header calls it made; wbuf
\* is the bytes.Buffer so far
WriteToAll(r, wbuf) ==
    LET hd == header(r)
        cp == CopyN(hd.rest, hd.n)
        me == <<[from |-> r, res |-> hd]>>
    IN  IF hd.err # "nil"
        THEN [content |-> <<>>, err |-> hd.err, rest |-> hd.rest,
              hds |-> me]
        ELSE IF cp.err # "nil"
        THEN [content |-> <<>>, err |-> cp.err, rest |-> cp.rest,
              hds |-> me]
        ELSE IF ~hd.part
        THEN [content |-> Cat(wbuf, cp.data), err |-> "nil",
              rest |-> cp.rest, hds |-> me]
        ELSE LET more == WriteToAll(cp.rest, Cat(wbuf, cp.data))
             IN  [more EXCEPT !.hds = me \o @]

(***************************************************************************)
(* 64-bit integers.  A uint64 is kept as four 16-bit limbs, the most       *)
(* significant first; an int64 is kept as the limbs of its two's           *)
(* complement bit pattern, which is what uint64(v) and int64(u) preserve.  *)
(***************************************************************************)
Limb == 65536
Zero64 == <<0, 0, 0, 0>>
One64 == <<0, 0, 0, 1>>
MinusOne64 == <<Limb - 1, Limb - 1, Limb - 1, Limb - 1>>

\* u << 1 on a uint64
Shl1(u) ==
    [i \in 1..4 |-> ((2 * u[i]) % Limb)
                        + (IF i < 4 THEN u[i + 1] \div (Limb \div 2) ELSE 0)]

\* u >> 1 on a uint64
Shr1(u) ==
    [i \in 1..4 |-> (u[i] \div 2)
                        + (IF i > 1 THEN (u[i - 1] % 2) * (Limb \div 2)
                           ELSE 0)]

\* ^v
Not64(u) == [i \in 1..4 |-> Limb - 1 - u[i]]

\* u + v with the carry out of bit 63
AddC(u, v) ==
    LET s4 == u[4] + v[4]
        s3 == u[3] + v[3] + (s4 \div Limb)
        s2 == u[2] + v[2] + (s3 \div Limb)
        s1 == u[1] + v[1] + (s2 \div Limb)
    IN  [sum |-> <<s1 % Limb, s2 % Limb, s3 % Limb, s4 % Limb>>,
         carry |-> s1 \div Limb]

\* u + v and u - v modulo 2^64
Add64(u, v) == AddC(u, v).sum
Sub64(u, v) == Add64(u, Add64(Not64(v), One64))

\* v < 0 on an int64
Negative(v) == v[1] >= Limb \div 2

\* binary.BigEndian.PutUint64: the eight bytes of v
PutUint64(v) ==
    <<v[1] \div 256, v[1] % 256, v[2] \div 256, v[2] % 256,
      v[3] \div 256, v[3] % 256, v[4] \div 256, v[4] % 256>>

\* binary.BigEndian.Uint64 on eight bytes
BigEndianUint64(b8) ==
    <<b8[1] * 256 + b8[2], b8[3] * 256 + b8[4],
      b8[5] * 256 + b8[6], b8[7] * 256 + b8[8]>>

RECURSIVE trimZeros(_)

trimOneZero(b) == IF BLen(b) > 0 /\ At(b, 0) = 0 THEN Drop(b, 1) ELSE b

\* Encoder.Uint64: for len(b) > 0 && b[0] == 0 { b = b[1:] }
trimZeros(b) ==
    IF BLen(b) > 0 /\ At(b, 0) = 0 THEN trimZeros(Drop(b, 1)) ELSE b

\* Encoder.Uint64 up to its call of Bytes: the blob given to Bytes
uint64Bytes(v) == trimZeros(Lit(PutUint64(v)))

zigzagNoComplement(v) ==
    IF ~Negative(v) THEN Shl1(v) ELSE Add64(Shl1(v), One64)

\* Encoder.Int64 up to its call of Uint64: the uint64 given to Uint64
zigzag(v) ==
    IF ~Negative(v) THEN Shl1(v) ELSE Add64(Shl1(Not64(v)), One64)

\* Decoder.Uint64 after its call of Bytes returned b without error
bytesUint64(b) ==
    IF BLen(b) > 8
    THEN [v |-> Zero64, err |-> "integer value too large for uint64"]
    ELSE LET pad == 8 - BLen(b)
             b8 == [i \in 1..8 |-> IF i <= pad THEN 0
                                   ELSE At(b, i - 1 - pad)]
         IN  [v |-> BigEndianUint64(b8), err |-> "nil"]

\* Decoder.Int64 after its call of Uint64 returned v without error
unzigzag(v) ==
    IF v[4] % 2 = 0 THEN Shr1(v) ELSE Sub64(MinusOne64, Shr1(v))

(***************************************************************************)
(* The contiguous Encode of the older cbs package.                         *)
(***************************************************************************)
cbsEncodeNoOffset(dst, src) ==
    LET n == BLen(src)
    IN  IF n = 1 /\ At(src, 0) < 128 THEN Cat(dst, src)
        ELSE IF n < 128 THEN Cat(Cat(dst, Lit(<<byte(128 + n)>>)), src)
        ELSE IF n < 16384
        THEN Cat(Cat(dst, Lit(<<129, byte(n \div 256), byte(n)>>)), src)
        ELSE [panic |-> "content too large for small-blob encoder"]

\* cbs.Encode(dst, src)
cbsEncode(dst, src) ==
    LET n == BLen(src)
    IN  IF n = 1 /\ At(src, 0) < 128 THEN Cat(dst, src)
        ELSE IF n < 128 THEN Cat(Cat(dst, Lit(<<byte(128 + n)>>)), src)
        ELSE IF n < 16384
        THEN LET m == n - 128
             IN  Cat(Cat(dst, Lit(<<129, byte(m \div 256), byte(m)>>)), src)
        ELSE [panic |-> "content too large for small-blob encoder"]

(***************************************************************************)
(* The small-only decoder of the top-level package.                        *)
(***************************************************************************)
decodeHeaderSmallEager(buf) ==
    LET n  == BLen(buf)
        b0 == At(buf, 0)
        b1 == At(buf, 1)
    IN  IF n = 0 THEN [ofs |-> 0, n |-> 0, err |-> "EOF"]
        ELSE IF b0 < 128 THEN [ofs |-> 0, n |-> 1, err |-> "nil"]
        ELSE IF b0 # 129 /\ b0 < 128 + 64
        THEN [ofs |-> 1, n |-> b0 - 128, err |-> "nil"]
        ELSE IF b0 = 129 /\ n < 2 THEN [ofs |-> 0, n |-> 0, err |-> "TooLong"]
        ELSE IF n < 2 THEN [ofs |-> 0, n |-> 0, err |-> "EOF"]
        ELSE IF b0 = 129 /\ b1 >= 128 THEN [ofs |-> 1, n |-> 1, err |-> "nil"]
        ELSE IF b0 >= 128 + 64
        THEN [ofs |-> 2, n |-> 64 + (b0 % 64) * 256 + b1, err |-> "nil"]
        ELSE [ofs |-> 0, n |-> 0, err |-> "TooLong"]

\* decodeHeader of the small-only package
decodeHeaderSmall(buf) ==
    LET n  == BLen(buf)
        b0 == At(buf, 0)
        b1 == At(buf, 1)
    IN  IF n = 0 THEN [ofs |-> 0, n |-> 0, err |-> "EOF"]
        ELSE IF b0 < 128 THEN [ofs |-> 0, n |-> 1, err |-> "nil"]
        ELSE IF b0 # 129 /\ b0 < 128 + 64
        THEN [ofs |-> 1, n |-> b0 - 128, err |-> "nil"]
        ELSE IF n < 2 THEN [ofs |-> 0, n |-> 0, err |-> "EOF"]
        ELSE IF b0 = 129 /\ b1 >= 128 THEN [ofs |-> 1, n |-> 1, err |-> "nil"]
        ELSE IF b0 >= 128 + 64
        THEN [ofs |-> 2, n |-> 64 + (b0 % 64) * 256 + b1, err |-> "nil"]
        ELSE [ofs |-> 0, n |-> 0, err |-> "TooLong"]

\* Decode of the small-only package
DecodeSmall(buf) ==
    LET h == decodeHeaderSmall(buf)
    IN  IF h.err # "nil"
        THEN [content |-> <<>>, remainder |-> <<>>, err |-> h.err]
        ELSE IF BLen(buf) < h.ofs + h.n
        THEN [content |-> <<>>, remainder |-> <<>>, err |-> "EOF"]
        ELSE [content |-> Slice(buf, h.ofs, h.ofs + h.n),
              remainder |-> Drop(buf, h.ofs + h.n), err |-> "nil"]

(***************************************************************************)
(* The bracket decoder of package cts.  Text is a sequence of bytes; the   *)
(* Decoder reads it rune by rune and writes runes to a strings.Builder.    *)
(***************************************************************************)
SquareBrackets == <<91, 93>>

\* newPairs(b): for each rune of the configuration its partner and its side
newPairs(b) ==
    LET rs == IF b = <<>> THEN SquareBrackets ELSE b
    IN  [x \in {rs[i] : i \in 1..Len(rs)} |->
            IF \E i \in 1..Len(rs) : i % 2 = 0 /\ rs[i] = x
            THEN [other |-> rs[(CHOOSE i \in 1..Len(rs) :
                                   i % 2 = 0 /\ rs[i] = x) - 1],
                  close |-> TRUE]
            ELSE [other |-> rs[(CHOOSE i \in 1..Len(rs) :
                                   i % 2 = 1 /\ rs[i] = x) + 1],
                  close |-> FALSE]]

\* the default handler of NewDecoder: func(e error) error { return e }
defaultHandler(e) == e

RuneError == 65533

\* bufio.Reader.ReadRune on the bytes rd, for one- and two-byte encodings;
\* a byte that starts neither is read as RuneError of size 1
ReadRune(rd) ==
    IF rd = <<>>
    THEN [rune |-> 0, err |-> "EOF", rest |-> rd]
    ELSE IF rd[1] < 128
    THEN [rune |-> rd[1], err |-> "nil", rest |-> Tail(rd)]
    ELSE IF /\ rd[1] >= 194 /\ rd[1] <= 223
            /\ Len(rd) >= 2 /\ rd[2] >= 128 /\ rd[2] <= 191
    THEN [rune |-> (rd[1] % 32) * 64 + (rd[2] % 64), err |-> "nil",
          rest |-> Tail(Tail(rd))]
    ELSE [rune |-> RuneError, err |-> "nil", rest |-> Tail(rd)]

WriteRuneLatin1(b, rune) == b \o <<rune % 256>>

\* strings.Builder.WriteRune: the UTF-8 encoding of the rune is appended
WriteRune(b, rune) ==
    IF rune < 128 THEN b \o <<rune>>
    ELSE IF rune < 2048
    THEN b \o <<192 + (rune \div 64), 128 + (rune % 64)>>
    ELSE b \o <<224 + (rune \div 4096), 128 + ((rune \div 64) % 64),
                128 + (rune % 64)>>

RECURSIVE toBracket(_, _, _, _)
\* Decoder.toBracket(close) on a Decoder whose reader holds rd, whose
\* builder holds b, whose pairs are p and whose handler h is the default
toBracket(rd, b, p, close) ==
    LET rr == ReadRune(rd)
        stop(e) == [open |-> 0, close |-> 0, err |-> e, rd |-> rr.rest,
                    b |-> b]
        h(e) == defaultHandler(e)
    IN  IF rr.err # "nil" THEN stop(rr.err)
        ELSE IF close # 0 /\ rr.rune = close THEN stop("nil")
        ELSE IF rr.rune \in DOMAIN p
        THEN LET br == p[rr.rune]
             IN  IF close = 0 /\ ~br.close
                 THEN [open |-> rr.rune, close |-> br.other, err |-> "nil",
                       rd |-> rr.rest, b |-> b]
                 ELSE IF close = 0
                 THEN IF h("unexpected closer") # "nil"
                      THEN stop(h("unexpected closer"))
                      ELSE toBracket(rr.rest, WriteRune(b, rr.rune), p,
                                     close)
                 ELSE IF br.close
                 THEN IF h("mismatched closer") # "nil"
                      THEN stop(h("mismatched closer"))
                      ELSE toBracket(rr.rest, WriteRune(b, rr.rune), p,
                                     close)
                 ELSE LET in == toBracket(rr.rest, WriteRune(b, rr.rune), p,
                                          br.other)
                      IN  IF in.err # "nil"
                          THEN [open |-> 0, close |-> 0, err |-> in.err,
                                rd |-> in.rd, b |-> in.b]
                          ELSE toBracket(in.rd, WriteRune(in.b, br.other), p,
                                         close)
        ELSE toBracket(rr.rest, WriteRune(b, rr.rune), p, close)

\* Decoder.Decode on a Decoder whose reader holds rd and builder holds b:
\* what it returns, and what it leaves in the reader and in the builder
ctsDecode(rd, b, p) ==
    LET t1 == toBracket(rd, b, p, 0)
        t2 == toBracket(t1.rd, <<>>, p, t1.close)
    IN  IF t1.err # "nil"
        THEN [head |-> <<>>, open |-> 0, tail |-> <<>>, close |-> 0,
              err |-> t1.err, rd |-> t1.rd, b |-> t1.b]
        ELSE IF t2.err # "nil"
        THEN [head |-> <<>>, open |-> 0, tail |-> <<>>, close |-> 0,
              err |-> t2.err, rd |-> t2.rd, b |-> t2.b]
        ELSE [head |-> t1.b, open |-> t1.open, tail |-> t2.b,
              close |-> t1.close, err |-> "nil", rd |-> t2.rd, b |-> <<>>]

(***************************************************************************)
(* State.                                                                  *)
(***************************************************************************)
VARIABLES
    srcs,     \* the blobs handed to the encoder so far, in order
    acc,      \* the buffer the contiguous Encode has appended to
    cpc,      \* contiguous side: "enc" while Encode is used, "dec" once
              \* Decode is, "sdec" once a streaming Decoder reads acc
    buf,      \* what is left of the buffer given to the contiguous Decode
    outs,     \* results of the decode calls made so far, in order
    ebufLen,  \* Encoder: len(e.buf), 0 while e.buf is nil
    ebufCap,  \* Encoder: cap(e.buf)
    ehdr,     \* Encoder: e.buf[0:4], the header scratch
    epc,      \* Encoder: "idle", "loop" (inside ReadFrom), "failed", "panic"
    r,        \* Encoder: bytes the source of the running ReadFrom still holds
    tot,      \* Encoder: tot of the running ReadFrom
    w,        \* Encoder: bytes the sink has received
    eret,     \* Encoder: what the ReadFrom calls returned, in order
    chunks,   \* Encoder: chunks written by the latest ReadFrom call: payload
              \* length l, header offset h, part if the header written is
              \* the four-byte one with the partial bits 0x60
    marks,    \* Encoder: len of the sink after each ReadFrom that returned nil
    dpc,      \* Decoder: "none", "idle", "copy" (inside WriteTo)
    dfrom,    \* Decoder: which bytes it was created on ("w", "acc")
    dr,       \* Decoder: bytes its bufio.Reader still holds
    dw,       \* Decoder: the bytes.Buffer of the running Bytes call
    dlen0,    \* Decoder: len of dr when the running Bytes call began
    vals,     \* Encoder: the method each blob was given to ("bytes",
              \* "uint", "int") and the integer it was given
    ints,     \* Decoder: what the Uint64 and Int64 calls returned, in order
    cin,      \* cts: the text the cts Decoder was created on
    crd,      \* cts Decoder: what its bufio.Reader still holds
    cb,       \* cts Decoder: the content of its strings.Builder
    couts,    \* cts Decoder: what its Decode calls returned, in order
    din,      \* Decoder: the bytes the reader it was created on delivers
    hdrs      \* the header parses of the latest decode call, in order: the
              \* bytes the parser was given and what it returned

vars == <<srcs, acc, cpc, buf, outs, ebufLen, ebufCap, ehdr, epc, r, tot, w,
          eret, chunks, marks, dpc, dfrom, dr, dw, dlen0, vals, ints,
          cin, crd, cb, couts, din, hdrs>>

contigVars == <<acc, cpc, buf>>
encVars == <<ebufLen, ebufCap, ehdr, epc, r, tot, w, eret, chunks, marks>>
decVars == <<dpc, dfrom, dr, dw, dlen0>>
intVars == <<vals, ints>>
ctsVars == <<cin, crd, cb, couts>>

Init ==
    /\ srcs = <<>>
    /\ acc = <<>>
    /\ cpc = "enc"
    /\ buf = <<>>
    /\ outs = <<>>
    /\ ebufLen = 0
    /\ ebufCap = 0
    /\ ehdr = <<0, 0, 0, 0>>
    /\ epc = "idle"
    /\ r = <<>>
    /\ tot = 0
    /\ w = <<>>
    /\ eret = <<>>
    /\ chunks = <<>>
    /\ marks = <<>>
    /\ dpc = "none"
    /\ dfrom = "none"
    /\ dr = <<>>
    /\ dw = <<>>
    /\ dlen0 = 0
    /\ vals = <<>>
    /\ ints = <<>>
    /\ cin = <<>>
    /\ crd = <<>>
    /\ cb = <<>>
    /\ couts = <<>>
    /\ din = <<>>
    /\ hdrs = <<>>

(***************************************************************************)
(* Inputs.                                                                 *)
(***************************************************************************)
\* blobs given to the contiguous Encode: the lengths around every branch of
\* Encode, filled with a byte below 128, with 0x81 or with 0xC0
ContigLens == {0, 1, 2, 63, 64, 65, 16447, 16448, 4210751, 4210752}
ContigBlobs ==
    {Rep(v, n) : v \in {0, 129}, n \in ContigLens}
        \cup {Rep(127, 1), Rep(128, 1), Rep(192, 64),
              Cat(Rep(129, 1), Rep(0, 16447))}

\* arguments given to SetChunkLen
ChunkArgs == {MinChunkLen - 1, MinChunkLen, MinChunkLen + 129,
              MaxChunkLen, MaxChunkLen + 1}

\* blobs given to the streaming Encoder whose chunk length is c
StreamLens(c) == {0, 1, 64, 127, 128, 16511, 16512, c, c + 1, 2 * c}
\* the length of a source that takes three reads at the smallest chunk length
ScenarioLen == 40000

StreamBlobs(c) ==
    {Rep(0, n) : n \in StreamLens(c)}
        \cup {Rep(127, 1), Rep(128, 1), Cat(Rep(129, c), Rep(130, 1))}
        \cup (IF c = MinChunkLen THEN {Rep(0, ScenarioLen)} ELSE {})

(***************************************************************************)
(* Contiguous side: Encode appends blob after blob to one buffer, Decode   *)
(* is then called on the buffer and on each remainder in turn.             *)
(***************************************************************************)
\* accx = Encode(accx, st.data)
EncodeBlob(s) ==
    /\ cpc = "enc"
    /\ dpc = "none"
    /\ Len(srcs) < MaxBlobs
    /\ acc' = Encode(acc, s)
    /\ srcs' = Append(srcs, s)
    /\ UNCHANGED <<cpc, buf, outs>>
    /\ UNCHANGED encVars
    /\ UNCHANGED decVars
    /\ UNCHANGED intVars
    /\ UNCHANGED ctsVars
    /\ UNCHANGED <<din, hdrs>>

\* the buffer built so far is handed to Decode
StartDecode ==
    /\ cpc = "enc"
    /\ dpc = "none"
    /\ srcs # <<>>
    /\ cpc' = "dec"
    /\ buf' = acc
    /\ UNCHANGED <<srcs, acc, outs>>
    /\ UNCHANGED encVars
    /\ UNCHANGED decVars
    /\ UNCHANGED intVars
    /\ UNCHANGED ctsVars
    /\ UNCHANGED <<din, hdrs>>

\* data, rem, err := Decode(buf); buf = rem
DecodeBlob ==
    /\ cpc = "dec"
    /\ Len(outs) < Len(srcs)
    /\ LET res == Decode(buf)
       IN  /\ outs' = Append(outs, [content |-> res.content, err |-> res.err,
                                    used |-> BLen(buf) - BLen(res.remainder),
                                    owned |-> res.owned])
           /\ buf' = res.remainder
    /\ UNCHANGED <<srcs, acc, cpc>>
    /\ UNCHANGED encVars
    /\ UNCHANGED decVars
    /\ UNCHANGED intVars
    /\ UNCHANGED ctsVars
    /\ hdrs' = <<[from |-> buf, res |-> decodeHeader(buf)]>>
    /\ UNCHANGED din

\* dec := NewDecoder(bytes.NewReader(acc))
NewDecoderAcc ==
    /\ cpc = "enc"
    /\ dpc = "none"
    /\ srcs # <<>>
    /\ cpc' = "sdec"
    /\ dpc' = "idle"
    /\ dfrom' = "acc"
    /\ dr' = acc
    /\ UNCHANGED <<srcs, acc, buf, outs, dw, dlen0>>
    /\ UNCHANGED encVars
    /\ UNCHANGED intVars
    /\ UNCHANGED ctsVars
    /\ din' = acc
    /\ UNCHANGED hdrs

(***************************************************************************)
(* Streaming Decoder: Bytes and the WriteTo loop it runs.                  *)
(***************************************************************************)
\* entry of Decoder.Bytes: a fresh bytes.Buffer, WriteTo starts
DecBytes ==
    /\ dpc = "idle"
    /\ Len(outs) <= Len(srcs)
    /\ dpc' = "copy"
    /\ dw' = <<>>
    /\ dlen0' = BLen(dr)
    /\ UNCHANGED <<srcs, outs, dfrom, dr>>
    /\ UNCHANGED contigVars
    /\ UNCHANGED encVars
    /\ UNCHANGED intVars
    /\ UNCHANGED ctsVars
    /\ hdrs' = <<>>
    /\ UNCHANGED din

\* one iteration of the WriteTo loop, and the return of Bytes when it ends;
\* n is what WriteTo returned to Bytes: tot, the lengths copied so far
WriteToIter ==
    /\ dpc = "copy"
    /\ LET hd == header(dr)
           cp == CopyN(hd.rest, hd.n)
       IN  IF hd.err # "nil"
           THEN /\ dr' = hd.rest
                /\ dw' = dw
                /\ dpc' = "idle"
                /\ outs' = Append(outs, [content |-> <<>>, err |-> hd.err,
                                         used |-> dlen0 - BLen(hd.rest),
                                         owned |-> TRUE, n |-> 0])
           ELSE /\ dr' = cp.rest
                /\ dw' = Cat(dw, cp.data)
                /\ IF cp.err # "nil"
                   THEN /\ dpc' = "idle"
                        /\ outs' = Append(outs,
                               [content |-> <<>>, err |-> cp.err,
                                used |-> dlen0 - BLen(cp.rest),
                                owned |-> TRUE, n |-> 0])
                   ELSE IF ~hd.part
                   THEN /\ dpc' = "idle"
                        /\ outs' = Append(outs,
                               [content |-> Cat(dw, cp.data), err |-> "nil",
                                used |-> dlen0 - BLen(cp.rest),
                                owned |-> TRUE,
                                n |-> BLen(dw) + hd.n])
                   ELSE /\ dpc' = "copy"
                        /\ outs' = outs
    /\ UNCHANGED <<srcs, dfrom, dlen0>>
    /\ UNCHANGED contigVars
    /\ UNCHANGED encVars
    /\ UNCHANGED intVars
    /\ UNCHANGED ctsVars
    /\ hdrs' = Append(hdrs, [from |-> dr, res |-> header(dr)])
    /\ UNCHANGED din

(***************************************************************************)
(* Streaming Encoder.  The chunk length is set before the first blob, as   *)
(* TestEncoder does; the Encoder is dropped after a call that failed.      *)
(***************************************************************************)
\* Encoder.ChunkLen, getBuf included
ChunkLen == IF ebufLen = 0 THEN defaultChunkLen ELSE ebufLen - 4

SetChunkLenStrict(chunkLen) ==
    /\ epc = "idle"
    /\ dpc = "none"
    /\ srcs = <<>>
    /\ IF chunkLen <= MinChunkLen \/ chunkLen > MaxChunkLen
       THEN /\ epc' = "panic"
            /\ UNCHANGED <<ebufLen, ebufCap, ehdr>>
       ELSE LET bufLen == 4 + chunkLen
            IN  /\ epc' = epc
                /\ ebufLen' = bufLen
                /\ IF ebufCap < bufLen
                   THEN ebufCap' = bufLen /\ ehdr' = <<0, 0, 0, 0>>
                   ELSE UNCHANGED <<ebufCap, ehdr>>
    /\ UNCHANGED <<srcs, outs, r, tot, w, eret, chunks, marks>>
    /\ UNCHANGED contigVars
    /\ UNCHANGED decVars
    /\ UNCHANGED intVars
    /\ UNCHANGED ctsVars
    /\ UNCHANGED <<din, hdrs>>

SetChunkLen(chunkLen) ==
    /\ epc = "idle"
    /\ dpc = "none"
    /\ srcs = <<>>
    /\ IF chunkLen < MinChunkLen \/ chunkLen > MaxChunkLen
       THEN /\ epc' = "panic"
            /\ UNCHANGED <<ebufLen, ebufCap, ehdr>>
       ELSE LET bufLen == 4 + chunkLen
            IN  /\ epc' = epc
                /\ ebufLen' = bufLen
                /\ IF ebufCap < bufLen
                   THEN ebufCap' = bufLen /\ ehdr' = <<0, 0, 0, 0>>
                   ELSE UNCHANGED <<ebufCap, ehdr>>
    /\ UNCHANGED <<srcs, outs, r, tot, w, eret, chunks, marks>>
    /\ UNCHANGED contigVars
    /\ UNCHANGED decVars
    /\ UNCHANGED intVars
    /\ UNCHANGED ctsVars
    /\ UNCHANGED <<din, hdrs>>

\* Encoder.Bytes(s), called by the user or by Uint64 or Int64, which val
\* tells: ReadFrom is entered on a reader over s, up to the loop
Bytes(s, val) ==
    /\ epc = "idle"
    /\ dpc = "none"
    /\ Len(srcs) < MaxBlobs
    /\ IF ebufLen = 0
       THEN ebufLen' = 4 + defaultChunkLen /\ ebufCap' = 4 + defaultChunkLen
       ELSE UNCHANGED <<ebufLen, ebufCap>>
    /\ epc' = "loop"
    /\ r' = s
    /\ tot' = 0
    /\ chunks' = <<>>
    /\ srcs' = Append(srcs, s)
    /\ UNCHANGED <<outs, ehdr, w, eret, marks>>
    /\ UNCHANGED contigVars
    /\ UNCHANGED decVars
    /\ vals' = Append(vals, val)
    /\ UNCHANGED ints
    /\ UNCHANGED ctsVars
    /\ UNCHANGED <<din, hdrs>>

\* Encoder.Bytes(s)
EncBytes(s) == Bytes(s, [kind |-> "bytes", v |-> Zero64])

\* ReadFrom returning the bytes written so far when it fails
ReadFromIterTot(io) ==
    /\ epc = "loop"
    /\ LET chunkLen == ebufLen - 4
           rd == ReadFull(r, chunkLen)
           ch == chunkHeader(ehdr, rd.l, rd.err, chunkLen, rd.data)
           out == chunkBytes(ch.hdr, ch.h, rd.data)
       IN  IF io = "read"
           THEN /\ epc' = "failed"
                /\ eret' = Append(eret, [n |-> tot, err |-> "read"])
                /\ UNCHANGED <<ehdr, r, tot, w, chunks, marks>>
           ELSE /\ ehdr' = ch.hdr
                /\ r' = rd.rest
                /\ IF io = "write"
                   THEN /\ epc' = "failed"
                        /\ eret' = Append(eret, [n |-> tot, err |-> "write"])
                        /\ UNCHANGED <<tot, w, chunks, marks>>
                   ELSE IF io = "short"
                   THEN /\ epc' = "failed"
                        /\ w' = Cat(w, Take(out, BLen(out) - 1))
                        /\ eret' = Append(eret,
                                          [n |-> tot, err |-> "short write"])
                        /\ UNCHANGED <<tot, chunks, marks>>
                   ELSE /\ w' = Cat(w, out)
                        /\ tot' = tot + rd.l
                        /\ chunks' = Append(chunks,
                               [part |-> ch.h = 0 /\ ch.hdr[2] >= 96,
                                l |-> rd.l, h |-> ch.h])
                        /\ IF ch.more
                           THEN /\ epc' = "loop"
                                /\ UNCHANGED <<eret, marks>>
                           ELSE /\ epc' = "idle"
                                /\ eret' = Append(eret,
                                       [n |-> tot + rd.l, err |-> "nil"])
                                /\ marks' = Append(marks, BLen(Cat(w, out)))
    /\ UNCHANGED <<srcs, outs, ebufLen, ebufCap>>
    /\ UNCHANGED contigVars
    /\ UNCHANGED decVars
    /\ UNCHANGED intVars
    /\ UNCHANGED ctsVars
    /\ UNCHANGED <<din, hdrs>>

\* one iteration of the ReadFrom loop, and the return when the loop ends.
\* io says what the source and the sink do in it: "ok"; "read", the source
\* fails; "write", the sink fails; "short", the sink takes all but one byte
ReadFromIter(io) ==
    /\ epc = "loop"
    /\ LET chunkLen == ebufLen - 4
           rd == ReadFull(r, chunkLen)
           ch == chunkHeader(ehdr, rd.l, rd.err, chunkLen, rd.data)
           out == chunkBytes(ch.hdr, ch.h, rd.data)
       IN  IF io = "read"
           THEN /\ epc' = "failed"
                /\ eret' = Append(eret, [n |-> 0, err |-> "read"])
                /\ UNCHANGED <<ehdr, r, tot, w, chunks, marks>>
           ELSE /\ ehdr' = ch.hdr
                /\ r' = rd.rest
                /\ IF io = "write"
                   THEN /\ epc' = "failed"
                        /\ eret' = Append(eret, [n |-> 0, err |-> "write"])
                        /\ UNCHANGED <<tot, w, chunks, marks>>
                   ELSE IF io = "short"
                   THEN /\ epc' = "failed"
                        /\ w' = Cat(w, Take(out, BLen(out) - 1))
                        /\ eret' = Append(eret,
                                          [n |-> 0, err |-> "short write"])
                        /\ UNCHANGED <<tot, chunks, marks>>
                   ELSE /\ w' = Cat(w, out)
                        /\ tot' = tot + rd.l
                        /\ chunks' = Append(chunks,
                               [part |-> ch.h = 0 /\ ch.hdr[2] >= 96,
                                l |-> rd.l, h |-> ch.h])
                        /\ IF ch.more
                           THEN /\ epc' = "loop"
                                /\ UNCHANGED <<eret, marks>>
                           ELSE /\ epc' = "idle"
                                /\ eret' = Append(eret,
                                       [n |-> tot + rd.l, err |-> "nil"])
                                /\ marks' = Append(marks, BLen(Cat(w, out)))
    /\ UNCHANGED <<srcs, outs, ebufLen, ebufCap>>
    /\ UNCHANGED contigVars
    /\ UNCHANGED decVars
    /\ UNCHANGED intVars
    /\ UNCHANGED ctsVars
    /\ UNCHANGED <<din, hdrs>>

\* dec := NewDecoder(bytes.NewReader(buf.Bytes())) on the sink's bytes
NewDecoderW ==
    /\ epc \in {"idle", "failed"}
    /\ dpc = "none"
    /\ srcs # <<>>
    /\ dpc' = "idle"
    /\ dfrom' = "w"
    /\ dr' = w
    /\ UNCHANGED <<srcs, outs, dw, dlen0>>
    /\ UNCHANGED contigVars
    /\ UNCHANGED encVars
    /\ UNCHANGED intVars
    /\ UNCHANGED ctsVars
    /\ din' = w
    /\ UNCHANGED hdrs

\* Encoder.Uint64(v)
EncoderUint64(v) == Bytes(uint64Bytes(v), [kind |-> "uint", v |-> v])

\* Encoder.Int64(v)
EncoderInt64(v) == Bytes(uint64Bytes(zigzag(v)), [kind |-> "int", v |-> v])

\* Decoder.Uint64(), on a Decoder over the sink's bytes
DecoderUint64 ==
    /\ dpc = "idle"
    /\ dfrom = "w"
    /\ Len(ints) <= Len(srcs)
    /\ LET res == WriteToAll(dr, <<>>)
           cv == bytesUint64(res.content)
       IN  /\ dr' = res.rest
           /\ ints' = Append(ints,
                  IF res.err # "nil"
                  THEN [kind |-> "uint", v |-> Zero64, err |-> res.err]
                  ELSE [kind |-> "uint", v |-> cv.v, err |-> cv.err])
    /\ UNCHANGED <<srcs, outs, dpc, dfrom, dw, dlen0, vals>>
    /\ UNCHANGED contigVars
    /\ UNCHANGED encVars
    /\ UNCHANGED ctsVars
    /\ hdrs' = WriteToAll(dr, <<>>).hds
    /\ UNCHANGED din

\* Decoder.Int64(), on a Decoder over the sink's bytes
DecoderInt64 ==
    /\ dpc = "idle"
    /\ dfrom = "w"
    /\ Len(ints) <= Len(srcs)
    /\ LET res == WriteToAll(dr, <<>>)
           cv == bytesUint64(res.content)
       IN  /\ dr' = res.rest
           /\ ints' = Append(ints,
                  IF res.err # "nil"
                  THEN [kind |-> "int", v |-> Zero64, err |-> res.err]
                  ELSE IF cv.err # "nil"
                  THEN [kind |-> "int", v |-> Zero64, err |-> cv.err]
                  ELSE [kind |-> "int", v |-> unzigzag(cv.v),
                        err |-> "nil"])
    /\ UNCHANGED <<srcs, outs, dpc, dfrom, dw, dlen0, vals>>
    /\ UNCHANGED contigVars
    /\ UNCHANGED encVars
    /\ UNCHANGED ctsVars
    /\ hdrs' = WriteToAll(dr, <<>>).hds
    /\ UNCHANGED din

Faults == {"ok", "read", "write", "short"}

Next ==
    \/ \E c \in ChunkArgs : SetChunkLen(c)
    \/ \E s \in StreamBlobs(ChunkLen) : EncBytes(s)
    \/ \E io \in Faults : ReadFromIter(io)
    \/ NewDecoderW
    \/ DecBytes
    \/ WriteToIter

Spec == Init /\ [][Next]_vars

(***************************************************************************)
(* The streaming Encoder alone, on sources whose lengths lie around every  *)
(* branch of the ReadFrom loop and around the multiples of the chunk       *)
(* length.                                                                 *)
(***************************************************************************)
BoundaryLens(c) ==
    {0, 1, 63, 64, 127, 128, 16447, 16448, 16511, 16512,
     c - 1, c, c + 1, 2 * c - 1, 2 * c, 3 * c}

BoundaryBlobs(c) == {Rep(0, n) : n \in BoundaryLens(c)} \cup {Rep(128, 1)}

NextChunk ==
    \/ \E c \in ChunkArgs : SetChunkLen(c)
    \/ \E s \in BoundaryBlobs(ChunkLen) : EncBytes(s)
    \/ \E io \in Faults : ReadFromIter(io)

SpecChunk == Init /\ [][NextChunk]_vars

(***************************************************************************)
(* A streaming Decoder on a stream that ends early: only the first bytes   *)
(* of what the Encoder wrote reach its reader.                             *)
(***************************************************************************)
\* blobs written before the stream is cut: every header form, and one or
\* two partial chunks before the final one
CutBlobs(c) ==
    {Rep(0, n) : n \in {2, 128, 16512, c + 16512, 2 * c}}
        \cup {Rep(128, 1), Cat(Rep(129, c), Rep(130, 1))}

\* where a stream of L bytes written with chunk size c ends: in and after
\* the header of its first and of its second chunk, after two chunks, and
\* before its last bytes
StreamCuts(L, c) ==
    {n \in {1, 2, 3, 4, 5, 4 + c, 5 + c, 6 + c, 7 + c, 8 + c, 9 + c,
            2 * (4 + c), L - 2, L - 1} : 0 < n /\ n < L}

\* dec := NewDecoder(r) on a reader that delivers the first n bytes only
NewDecoderCut(n) ==
    /\ epc = "idle"
    /\ dpc = "none"
    /\ srcs # <<>>
    /\ dpc' = "idle"
    /\ dfrom' = "cut"
    /\ dr' = Take(w, n)
    /\ din' = Take(w, n)
    /\ UNCHANGED <<srcs, outs, dw, dlen0, hdrs>>
    /\ UNCHANGED contigVars
    /\ UNCHANGED encVars
    /\ UNCHANGED intVars
    /\ UNCHANGED ctsVars

NextCut ==
    \/ \E c \in ChunkArgs : SetChunkLen(c)
    \/ \E s \in CutBlobs(ChunkLen) : EncBytes(s)
    \/ \E io \in Faults : ReadFromIter(io)
    \/ \E n \in StreamCuts(BLen(w), ChunkLen) : NewDecoderCut(n)
    \/ DecBytes
    \/ WriteToIter

SpecCut == Init /\ [][NextCut]_vars

(***************************************************************************)
(* Integers on a stream: an Encoder with the default chunk length is given *)
(* integers and long blobs, a Decoder reads them back as integers.         *)
(***************************************************************************)
\* the uint64 values given to Encoder.Uint64: 0, 1, values around a byte
\* and a limb boundary, 2^32, a value with zero bytes inside, 2^63, 2^64-1
Uints ==
    {Zero64, One64, <<0, 0, 0, 255>>, <<0, 0, 0, 256>>, <<0, 0, 1, 0>>,
     <<0, 1, 0, 0>>, <<222, 173, 0, 239>>, <<Limb \div 2, 0, 0, 0>>,
     MinusOne64}

\* the int64 values given to Encoder.Int64: 0, -1, 1, -2, 63, -64, 64,
\* 2^31, -2^31, the maximum and the minimum
Ints ==
    {Zero64, MinusOne64, One64, Sub64(Zero64, <<0, 0, 0, 2>>),
     <<0, 0, 0, 63>>, Sub64(Zero64, <<0, 0, 0, 64>>), <<0, 0, 0, 64>>,
     <<0, 0, Limb \div 2, 0>>, Sub64(Zero64, <<0, 0, Limb \div 2, 0>>),
     <<(Limb \div 2) - 1, Limb - 1, Limb - 1, Limb - 1>>,
     <<Limb \div 2, 0, 0, 0>>}

\* blobs of more than 8 bytes given to Encoder.Bytes
LongBlobs == {Rep(255, 9), Cat(Rep(0, 1), Rep(1, 8))}

NextInt ==
    \/ \E v \in Uints : EncoderUint64(v)
    \/ \E v \in Ints : EncoderInt64(v)
    \/ \E s \in LongBlobs : EncBytes(s)
    \/ \E io \in Faults : ReadFromIter(io)
    \/ NewDecoderW
    \/ DecoderUint64
    \/ DecoderInt64

SpecInt == Init /\ [][NextInt]_vars

(***************************************************************************)
(* The streaming Encoder of the older cbs package.  Its ReadFrom, Bytes    *)
(* and getBuf are, statement for statement, those of the cbe Encoder (tot  *)
(* is an int instead of an int64), so the same actions model them; it is   *)
(* given the blobs of the cbs tests with its default chunk length.         *)
(***************************************************************************)
\* the lengths and fill bytes of the cbs test cases
CbsBlobs ==
    {Rep(0, n) : n \in {0, 1, 2, 127, 128, 204, 778, 4096, 16383}}
        \cup {Rep(127, 1), Rep(128, 1), Rep(255, 1), Rep(255, 4096),
              Cat(Rep(171, 1), Rep(205, 1))}

NextCbs ==
    \/ \E s \in CbsBlobs : EncBytes(s)
    \/ \E io \in Faults : ReadFromIter(io)

SpecCbs == Init /\ [][NextCbs]_vars

(***************************************************************************)
(* The cts Decoder with the default configuration, created on some text,   *)
(* and Decode called on it again and again.                                *)
(***************************************************************************)
MaxText == 6

\* the bytes of the texts: '[', ']', 'a', and the two bytes of U+00E9,
\* which are not text on their own or in another order
TextBytes == {91, 93, 97, 195, 169}

RECURSIVE TextsOf(_)
TextsOf(n) ==
    IF n = 0 THEN {<<>>}
    ELSE TextsOf(n - 1)
             \cup {Append(t, c) : t \in {u \in TextsOf(n - 1) : Len(u) = n - 1},
                                  c \in TextBytes}

\* d := c.NewDecoder(strings.NewReader(in)) with c := Config{}
InitCts ==
    /\ cin \in TextsOf(MaxText)
    /\ crd = cin
    /\ cb = <<>>
    /\ couts = <<>>
    /\ din = <<>>
    /\ hdrs = <<>>
    /\ srcs = <<>>
    /\ acc = <<>>
    /\ cpc = "cts"
    /\ buf = <<>>
    /\ outs = <<>>
    /\ ebufLen = 0
    /\ ebufCap = 0
    /\ ehdr = <<0, 0, 0, 0>>
    /\ epc = "idle"
    /\ r = <<>>
    /\ tot = 0
    /\ w = <<>>
    /\ eret = <<>>
    /\ chunks = <<>>
    /\ marks = <<>>
    /\ dpc = "none"
    /\ dfrom = "none"
    /\ dr = <<>>
    /\ dw = <<>>
    /\ dlen0 = 0
    /\ vals = <<>>
    /\ ints = <<>>

\* head, open, tail, close, err := d.Decode(); from is what the reader
\* held before the call and rem what d.Buffered() holds after it
CtsDecode ==
    /\ cpc = "cts"
    /\ Len(couts) < MaxBlobs
    /\ LET res == ctsDecode(crd, cb, newPairs(<<>>))
       IN  /\ crd' = res.rd
           /\ cb' = res.b
           /\ couts' = Append(couts,
                  [head |-> res.head, open |-> res.open, tail |-> res.tail,
                   close |-> res.close, err |-> res.err, from |-> crd,
                   rem |-> res.rd])
    /\ UNCHANGED <<srcs, outs, cin>>
    /\ UNCHANGED contigVars
    /\ UNCHANGED encVars
    /\ UNCHANGED decVars
    /\ UNCHANGED intVars
    /\ UNCHANGED <<din, hdrs>>

NextCts == CtsDecode

SpecCts == InitCts /\ [][NextCts]_vars

(***************************************************************************)
(* Contiguous Decode on a buffer that no encoder of this package wrote.    *)
(***************************************************************************)
\* the first bytes of the buffer: nothing, or 1, 2 or 4 bytes around the
\* values the header grammar tells apart
RawHeads ==
    LET B0 == {0, 127, 128, 129, 130, 191, 192, 193, 255}
        B1 == {0, 1, 63, 64, 127, 128, 255}
        B23 == {<<0, 0>>, <<0, 1>>, <<255, 255>>}
    IN  {<<>>} \cup {<<a>> : a \in B0}
            \cup {<<a, b>> : a \in B0, b \in B1}
            \cup {<<a, b>> \o t : a \in {129}, b \in B1, t \in B23}

\* the number of bytes after them, all equal
RawLens == {0, 1, 2, 3, 62, 63, 64, 65, 127, 128, 319, 320, 16446, 16447,
            16448, 16449, 16450}

RawBufs == {Cat(Lit(hd), Rep(v, n)) : hd \in RawHeads, v \in {0, 128, 129},
                                      n \in RawLens}

\* a partial chunk as the grammar writes it: 0x81, then 01 and the 22 bits
\* of len(p) - 16448, then p
partialChunk(p) ==
    LET m == BLen(p) - 16448
    IN  Cat(Lit(<<129, 64 + (m \div 65536), (m \div 256) % 256, m % 256>>),
            p)

\* blobs some other encoder split into chunks: the payloads of the partial
\* chunks, the payload of the final chunk, and what follows in the buffer
PartPayloads == {Rep(0, 16448), Rep(129, 16449), Rep(128, 4210751)}
FinPayloads == {<<>>, Rep(0, 1), Rep(129, 1), Rep(0, 64), Rep(129, 16448)}
Trails == {<<>>, Lit(<<128>>), Lit(<<129, 64, 0, 0>>), Rep(0, 3)}
ChunkDescs ==
    {[parts |-> ps, fin |-> f, trail |-> t] :
        ps \in {<<p>> : p \in PartPayloads}
                   \cup {<<p, q>> : p \in PartPayloads, q \in PartPayloads},
        f \in FinPayloads, t \in Trails}

RECURSIVE CatAll(_)
\* the byte strings of a sequence, one after the other
CatAll(ss) == IF ss = <<>> THEN <<>> ELSE Cat(Head(ss), CatAll(Tail(ss)))

\* the buffer of a description
Chunked(d) ==
    Cat(CatAll([i \in 1..Len(d.parts) |-> partialChunk(d.parts[i])]),
        Cat(Encode(<<>>, d.fin), d.trail))

\* a caller holds some buffer and is about to call Decode on it; srcs keeps
\* the pieces a chunked buffer was built from, the trailing bytes last
InitRaw ==
    /\ \/ acc \in RawBufs /\ srcs = <<>>
       \/ \E d \in ChunkDescs :
              acc = Chunked(d) /\ srcs = d.parts \o <<d.fin, d.trail>>
    /\ buf = acc
    /\ cpc = "raw"
    /\ outs = <<>>
    /\ ebufLen = 0
    /\ ebufCap = 0
    /\ ehdr = <<0, 0, 0, 0>>
    /\ epc = "idle"
    /\ r = <<>>
    /\ tot = 0
    /\ w = <<>>
    /\ eret = <<>>
    /\ chunks = <<>>
    /\ marks = <<>>
    /\ dpc = "none"
    /\ dfrom = "none"
    /\ dr = <<>>
    /\ dw = <<>>
    /\ dlen0 = 0
    /\ vals = <<>>
    /\ ints = <<>>
    /\ cin = <<>>
    /\ crd = <<>>
    /\ cb = <<>>
    /\ couts = <<>>
    /\ din = <<>>
    /\ hdrs = <<>>

\* data, rem, err := Decode(buf); buf = rem, while there is something left
DecodeRaw ==
    /\ cpc = "raw"
    /\ Len(outs) < MaxBlobs
    /\ IF outs = <<>> THEN TRUE
       ELSE outs[Len(outs)].err = "nil" /\ buf # <<>>
    /\ LET res == Decode(buf)
       IN  /\ outs' = Append(outs, [content |-> res.content, err |-> res.err,
                                    used |-> BLen(buf) - BLen(res.remainder),
                                    owned |-> res.owned])
           /\ buf' = res.remainder
    /\ UNCHANGED <<srcs, acc, cpc>>
    /\ UNCHANGED encVars
    /\ UNCHANGED decVars
    /\ UNCHANGED intVars
    /\ UNCHANGED ctsVars
    /\ hdrs' = <<[from |-> buf, res |-> decodeHeader(buf)]>>
    /\ UNCHANGED din

\* data, rem, err := Decode(buf) of the small-only package, on that buffer
DecodeSmallRaw ==
    /\ cpc = "raw"
    /\ outs = <<>>
    /\ cpc' = "small"
    /\ LET res == DecodeSmall(buf)
       IN  /\ outs' = Append(outs, [content |-> res.content, err |-> res.err,
                                    used |-> BLen(buf) - BLen(res.remainder),
                                    owned |-> FALSE])
           /\ buf' = res.remainder
    /\ UNCHANGED <<srcs, acc>>
    /\ UNCHANGED encVars
    /\ UNCHANGED decVars
    /\ UNCHANGED intVars
    /\ UNCHANGED ctsVars
    /\ hdrs' = <<[from |-> buf, res |-> decodeHeaderSmall(buf)]>>
    /\ UNCHANGED din

\* dec := NewDecoder(bytes.NewReader(buf)) on that buffer
NewDecoderRaw ==
    /\ cpc = "raw"
    /\ outs = <<>>
    /\ dpc = "none"
    /\ cpc' = "sraw"
    /\ dpc' = "idle"
    /\ dfrom' = "raw"
    /\ dr' = acc
    /\ din' = acc
    /\ UNCHANGED <<srcs, acc, buf, outs, dw, dlen0, hdrs>>
    /\ UNCHANGED encVars
    /\ UNCHANGED intVars
    /\ UNCHANGED ctsVars

NextRaw ==
    \/ DecodeRaw
    \/ DecodeSmallRaw
    \/ NewDecoderRaw
    \/ DecBytes
    \/ WriteToIter

SpecRaw == InitRaw /\ [][NextRaw]_vars

\* where an encoding of L bytes is cut: in and after its first header,
\* before its last bytes, and after a whole chunk of the largest length
Cuts(L) ==
    {n \in {0, 1, 2, 3, 4, 5, 4 + MaxChunkLen, 8 + MaxChunkLen,
            L - 5, L - 4, L - 3, L - 2, L - 1} : 0 <= n /\ n < L}

\* only the first n bytes of Encode(nil, s) reach the caller of Decode
Truncate(n) ==
    /\ cpc = "enc"
    /\ dpc = "none"
    /\ Len(srcs) = 1
    /\ cpc' = "trunc"
    /\ buf' = Take(acc, n)
    /\ UNCHANGED <<srcs, acc, outs>>
    /\ UNCHANGED encVars
    /\ UNCHANGED decVars
    /\ UNCHANGED intVars
    /\ UNCHANGED ctsVars
    /\ UNCHANGED <<din, hdrs>>

\* data, rem, err := Decode(p) on that prefix
DecodePrefix ==
    /\ cpc = "trunc"
    /\ outs = <<>>
    /\ LET res == Decode(buf)
       IN  /\ outs' = Append(outs, [content |-> res.content, err |-> res.err,
                                    used |-> BLen(buf) - BLen(res.remainder),
                                    owned |-> res.owned])
           /\ buf' = res.remainder
    /\ UNCHANGED <<srcs, acc, cpc>>
    /\ UNCHANGED encVars
    /\ UNCHANGED decVars
    /\ UNCHANGED intVars
    /\ UNCHANGED ctsVars
    /\ hdrs' = <<[from |-> buf, res |-> decodeHeader(buf)]>>
    /\ UNCHANGED din

NextContig ==
    \/ \E s \in ContigBlobs : EncodeBlob(s)
    \/ StartDecode
    \/ DecodeBlob
    \/ \E n \in Cuts(BLen(acc)) : Truncate(n)
    \/ DecodePrefix
    \/ NewDecoderAcc
    \/ DecBytes
    \/ WriteToIter

SpecContig == Init /\ [][NextContig]_vars

(***************************************************************************)
(* Properties of the contiguous pair (SpecContig).                         *)
(***************************************************************************)
\* a decode result that succeeded with the given content
Returned(o, s) == o.err = "nil" /\ o.content = s

\* C1 -- contiguous round trip: for every byte string s, Decode applied to
\* Encode(nil, s) succeeds, returns content equal to s and leaves an empty
\* remainder.
C1_RoundTrip ==
    (cpc = "dec" /\ dfrom = "none" /\ Len(srcs) = 1 /\ Len(outs) = 1)
        => (Returned(outs[1], srcs[1]) /\ buf = <<>>)

\* C2 -- concatenation: Decode called again and again on the remainder of
\* the previous call, starting from Encode(s1) ++ ... ++ Encode(sk), returns
\* s1, ..., sk in that order without error and ends with an empty remainder.
C2_Concatenation ==
    (cpc = "dec" /\ dfrom = "none")
        => /\ \A i \in 1..Len(outs) : Returned(outs[i], srcs[i])
           /\ (Len(outs) = Len(srcs) => buf = <<>>)

\* C5 -- one grammar for both directions: the streaming Decoder reading the
\* contiguous encoding Encode(nil, s) returns exactly s without error.
C5_OneGrammar ==
    (dfrom = "acc" /\ Len(srcs) = 1 /\ Len(outs) >= 1)
        => Returned(outs[1], srcs[1])

\* the header the emit table gives a final chunk with payload s
EmitTable(s) ==
    LET L == BLen(s)
    IN  IF L = 1 /\ At(s, 0) < 128 THEN <<>>
        ELSE IF L < 64 THEN <<128 + L>>
        ELSE IF L <= 16447
        THEN <<192 + ((L - 64) \div 256), (L - 64) % 256>>
        ELSE <<129, (L - 16448) \div 65536, ((L - 16448) \div 256) % 256,
               (L - 16448) % 256>>

\* C9 -- emit table: for every src shorter than 4210752 bytes Encode(dst,
\* src) is dst, then the header of the emit table (none, 0x80+L, the two
\* bytes for L-64, the four bytes for L-16448), then src.
C9_EmitTable ==
    [][(cpc = "enc" /\ Len(srcs') = Len(srcs) + 1
            /\ BLen(srcs'[Len(srcs')]) < 4210752)
        => acc' = Cat(Cat(acc, Lit(EmitTable(srcs'[Len(srcs')]))),
                      srcs'[Len(srcs')])]_vars

\* Encode has appended a four-byte-header blob to a non-empty dst
C9_Witness ==
    /\ cpc = "enc"
    /\ Len(srcs) = 2
    /\ BLen(srcs[1]) = 64
    /\ BLen(srcs[2]) = 16448
    /\ BLen(acc) = 66 + 16452

(***************************************************************************)
(* Properties of the streaming pair (Spec).                                *)
(***************************************************************************)
\* the bytes the sink received from the i-th ReadFrom call that returned nil
Written(i) == Slice(w, IF i = 1 THEN 0 ELSE marks[i - 1], marks[i])

\* C3 -- canonicality (small): for every s of at most 16447 bytes and every
\* chunk size SetChunkLen accepts, the bytes the streaming Encoder writes
\* for s are exactly the bytes Encode(nil, s) returns.
C3_Canonical ==
    \A i \in 1..Len(marks) :
        BLen(srcs[i]) <= 16447 => Written(i) = Encode(<<>>, srcs[i])

\* C4 -- streaming round trip: for every s and every chunk size in
\* [16384, 2113535], a streaming Decoder reading the bytes the streaming
\* Encoder wrote for s returns exactly s.
C4_StreamRoundTrip ==
    dfrom = "w"
        => \A i \in 1..Len(outs) :
               i <= Len(marks) => Returned(outs[i], srcs[i])

\* a blob of three chunks, written with the largest chunk size, came back
C4_Witness ==
    /\ dfrom = "w"
    /\ ChunkLen = MaxChunkLen
    /\ Len(chunks) = 3
    /\ Len(outs) = 1
    /\ Returned(outs[1], srcs[1])
    /\ BLen(srcs[1]) = 2 * MaxChunkLen

\* the chunks of one ReadFrom call: partial chunks only while the call
\* runs or after it failed, and one final chunk, the last, once it returned
ChunkShape ==
    /\ \A i \in 1..(Len(chunks) - 1) : chunks[i].part
    /\ (epc \in {"loop", "failed"} /\ chunks # <<>>)
           => chunks[Len(chunks)].part
    /\ (epc = "idle" /\ srcs # <<>>)
           => (chunks # <<>> /\ ~chunks[Len(chunks)].part)

\* C6 -- streaming termination: a ReadFrom call on a finite source returns,
\* and the chunks it wrote without an I/O error are zero or more partial
\* chunks followed by exactly one final chunk, which is the last one.
C6_Termination == ((epc = "loop") ~> (epc # "loop")) /\ []ChunkShape

\* ReadFrom has returned nil after two partial chunks and the final one
C6_Witness ==
    /\ epc = "idle"
    /\ Len(chunks) = 3
    /\ chunks[1].part /\ chunks[2].part /\ ~chunks[3].part
    /\ eret # <<>> /\ eret[Len(eret)].err = "nil"

\* C7 -- partial-chunk invariant: every partial chunk the streaming Encoder
\* writes, under any chunk size SetChunkLen accepts and under the default,
\* carries a payload length in [16448, 2113535].
C7_PartialLength ==
    \A i \in 1..Len(chunks) :
        chunks[i].part => (16448 <= chunks[i].l /\ chunks[i].l <= 2113535)

\* C10 -- consecutive blobs on one stream: a Decoder reading what one
\* Encoder wrote for s1..sk returns s1..sk in order from k successive Bytes
\* calls, each call consuming exactly the bytes of one blob encoding, and
\* one more call returns EOF.
C10_Consecutive ==
    (dfrom = "w" /\ epc = "idle")
        => \A i \in 1..Len(outs) :
               IF i <= Len(srcs)
               THEN /\ Returned(outs[i], srcs[i])
                    /\ outs[i].used = BLen(Written(i))
               ELSE outs[i].err = "EOF" /\ outs[i].content = <<>>

\* two blobs were written, both came back, and a third call returned EOF
C10_Witness ==
    /\ dfrom = "w"
    /\ epc = "idle"
    /\ Len(srcs) = 2
    /\ Len(outs) = 3
    /\ outs[3].err = "EOF"
    /\ outs[1].used > 0 /\ outs[2].used > 16384
    /\ dr = <<>>

\* the scheduling: a ReadFrom call that is inside its loop keeps running
FairSpec == Spec /\ WF_vars(\E io \in Faults : ReadFromIter(io))

(***************************************************************************)
(* Properties of Decode on arbitrary buffers (SpecRaw).                    *)
(***************************************************************************)
\* C8 -- canonical small blobs: for every content of at most 16447 bytes
\* exactly one byte string is accepted by Decode with that content and an
\* empty remainder, and it is Encode(nil, content).
C8_CanonicalSmall ==
    (cpc = "raw" /\ outs # <<>> /\ outs[1].err = "nil"
            /\ BLen(outs[1].content) <= 16447)
        => LET c == outs[1].content
               e == Encode(<<>>, c)
               d == Decode(e)
           IN  /\ d.err = "nil" /\ d.content = c /\ d.remainder = <<>>
               /\ outs[1].used = BLen(acc) => acc = e

\* Decode took a whole buffer with a two-byte header as one small blob
C8_Witness ==
    /\ cpc = "raw"
    /\ Len(outs) = 1
    /\ outs[1].err = "nil"
    /\ outs[1].used = BLen(acc)
    /\ BLen(outs[1].content) = 16447
    /\ At(acc, 0) = 255

(***************************************************************************)
(* Properties of one ReadFrom call (Spec).                                 *)
(***************************************************************************)
\* where in the sink the bytes of the running or latest ReadFrom call begin
CallBase ==
    IF epc = "loop"
    THEN IF marks = <<>> THEN 0 ELSE marks[Len(marks)]
    ELSE IF Len(marks) <= 1 THEN 0 ELSE marks[Len(marks) - 1]

RECURSIVE StripHeaders(_, _)
\* bs without the header of each of the chunks cs it is made of
StripHeaders(bs, cs) ==
    IF cs = <<>> THEN bs
    ELSE LET hl == 4 - Head(cs).h
         IN  Cat(Slice(bs, hl, hl + Head(cs).l),
                 StripHeaders(Drop(bs, hl + Head(cs).l), Tail(cs)))

RECURSIVE ChunkWise(_, _)
\* bs is, chunk by chunk, a header that the Decoder reads as the chunk's
\* length and role, then as many bytes, and nothing more
ChunkWise(bs, cs) ==
    IF cs = <<>> THEN bs = <<>>
    ELSE LET hd == header(bs)
             c == Head(cs)
         IN  /\ hd.err = "nil"
             /\ hd.n = c.l
             /\ hd.part = c.part
             /\ BLen(bs) - BLen(hd.rest) = 4 - c.h
             /\ BLen(hd.rest) >= c.l
             /\ ChunkWise(Drop(hd.rest, c.l), Tail(cs))

\* the sink holds whole chunks of the call, and their payloads followed by
\* what the source still holds are the source
InOrder ==
    (epc \in {"loop", "idle"} /\ srcs # <<>>)
        => /\ ChunkWise(Drop(w, CallBase), chunks)
           /\ Cat(StripHeaders(Drop(w, CallBase), chunks), r)
                  = srcs[Len(srcs)]

\* a step of ReadFrom that hands a whole chunk to the sink appends the
\* header and the payload of that one chunk, the next bytes of the source
OneWrite ==
    (epc = "loop" /\ Len(chunks') = Len(chunks) + 1)
        => LET c == chunks'[Len(chunks')]
           IN  /\ BLen(w') = BLen(w) + (4 - c.h) + c.l
               /\ Take(w', BLen(w)) = w
               /\ Drop(w', BLen(w) + (4 - c.h)) = Take(r, c.l)
               /\ r' = Drop(r, c.l)

\* C11 -- ordering and verbatim payload: the bytes the sink receives from
\* one ReadFrom call are, chunk by chunk in source order, the chunk's
\* header immediately followed by its payload, each chunk handed over in
\* one contiguous write; without the headers they are the source bytes.
C11_Ordering == []InOrder /\ [][OneWrite]_vars

\* a partial chunk of one byte value and a final chunk of another arrived
C11_Witness ==
    /\ epc = "idle"
    /\ Len(chunks) = 2
    /\ srcs[Len(srcs)] = Cat(Rep(129, MaxChunkLen), Rep(130, 1))
    /\ BLen(w) - CallBase = 4 + MaxChunkLen + 2

\* ReadFrom has returned nil for the 40000-byte source at chunk size 16384
Scenario ==
    /\ epc = "idle"
    /\ ChunkLen = MinChunkLen
    /\ srcs # <<>>
    /\ Len(marks) = Len(srcs)
    /\ BLen(srcs[Len(srcs)]) = ScenarioLen

\* the bytes the sink received from the latest ReadFrom call, from offset lo
WrittenAt(lo, n) == Slice(Drop(w, CallBase), lo, lo + n)

C13_Truncation ==
    (cpc = "trunc" /\ Len(outs) = 1)
        => /\ outs[1].err = "EOF"
           /\ outs[1].content = <<>>
           /\ buf = <<>>

(***************************************************************************)
(* Properties of Decode on chunked buffers (SpecRaw).                      *)
(***************************************************************************)
\* C14 -- multi-chunk contiguous decode: when the buffer starts with k >= 1
\* whole partial chunks followed by a whole final chunk, Decode returns the
\* k+1 payloads in order as content and exactly the bytes after the final
\* chunk as remainder; those bytes are not read as a further chunk.
C14_MultiChunk ==
    (cpc = "raw" /\ srcs # <<>> /\ outs # <<>>)
        => LET trail == srcs[Len(srcs)]
           IN  /\ outs[1].err = "nil"
               /\ outs[1].content = CatAll(SubSeq(srcs, 1, Len(srcs) - 1))
               /\ outs[1].used = BLen(acc) - BLen(trail)
               /\ (Len(outs) = 1 => buf = trail)

\* Decode joined two partial chunks and a two-byte-header final chunk, and
\* left a following partial-chunk header alone
C14_Witness ==
    /\ cpc = "raw"
    /\ Len(outs) = 1
    /\ outs[1].err = "nil"
    /\ BLen(outs[1].content) = 16448 + 16449 + 16448
    /\ buf = Lit(<<129, 64, 0, 0>>)

(***************************************************************************)
(* Properties of the chunk-length setter (Spec).                           *)
(***************************************************************************)
\* what a step does to the chunk length: SetChunkLen(c) panics and leaves
\* it alone when c is out of range and sets it, and the scratch buffer's
\* length to 4 + c, otherwise; no other step changes it
SetterStep ==
    /\ \A c \in ChunkArgs :
           SetChunkLen(c)
               => IF c < 16384 \/ c > 2113535
                  THEN epc' = "panic" /\ ChunkLen' = ChunkLen
                  ELSE /\ epc' = "idle"
                       /\ ChunkLen' = c
                       /\ ebufLen' = 4 + c
    /\ (~\E c \in ChunkArgs : SetChunkLen(c)) => ChunkLen' = ChunkLen

\* C15 -- chunk-size setter: SetChunkLen(c) panics, leaving the chunk
\* length as it was, exactly when c < 16384 or c > 2113535; for every other
\* c a later ChunkLen() returns c and the scratch buffer length is 4 + c;
\* an Encoder on which SetChunkLen was never called reports 16384.
C15_Setter == (ChunkLen = 16384) /\ [][SetterStep]_vars

\* the largest chunk length was set, then a smaller one, then a call with
\* an argument out of range panicked
C15_Witness ==
    /\ epc = "panic"
    /\ ChunkLen = MinChunkLen + 129
    /\ ebufCap = 4 + MaxChunkLen

(***************************************************************************)
(* Properties of the integer methods (SpecInt).                            *)
(***************************************************************************)
\* byte j of the eight big-endian bytes of u, byte 0 the most significant
Digit(u, j) ==
    IF j % 2 = 0 THEN u[(j \div 2) + 1] \div 256 ELSE u[(j \div 2) + 1] % 256

\* b is the big-endian bytes of u without any leading zero byte
MinimalBE(b, u) ==
    LET pad == 8 - BLen(b)
    IN  /\ BLen(b) <= 8
        /\ \A j \in 0..7 :
               Digit(u, j) = IF j < pad THEN 0 ELSE At(b, j - pad)
        /\ BLen(b) > 0 => At(b, 0) # 0

\* the i-th call on the Decoder read the i-th blob, which is whole
ReadBack(i) == dfrom = "w" /\ i <= Len(ints) /\ i <= Len(marks)

\* C16 -- unsigned adapter: Encoder.Uint64(v) encodes as a blob the
\* big-endian bytes of v without leading zero bytes (the empty blob for 0),
\* Decoder.Uint64 reading that blob returns v, and Decoder.Uint64 returns
\* an error for any blob whose payload is longer than 8 bytes.
C16_Unsigned ==
    \A i \in 1..Len(srcs) :
        /\ vals[i].kind = "uint"
               => /\ MinimalBE(srcs[i], vals[i].v)
                  /\ (vals[i].v = Zero64 => srcs[i] = <<>>)
        /\ (ReadBack(i) /\ ints[i].kind = "uint")
               => /\ vals[i].kind = "uint"
                      => (ints[i].err = "nil" /\ ints[i].v = vals[i].v)
                  /\ BLen(srcs[i]) > 8 => ints[i].err # "nil"

\* 2^64 - 1 came back from Decoder.Uint64, and a blob of 9 bytes did not
C16_Witness ==
    /\ Len(ints) = 2
    /\ ReadBack(2)
    /\ vals[1] = [kind |-> "uint", v |-> MinusOne64]
    /\ ints[1] = [kind |-> "uint", v |-> MinusOne64, err |-> "nil"]
    /\ BLen(srcs[2]) = 9
    /\ ints[2].kind = "uint" /\ ints[2].err # "nil"

\* the uint64 the zig-zag map gives v: 2v for v >= 0, 2(-v-1)+1 for v < 0,
\* with the carries out of bit 63 that computing it takes
ZigZagOf(v) ==
    LET x == IF Negative(v) THEN Sub64(Sub64(Zero64, v), One64) ELSE v
        d == AddC(x, x)
        e == IF Negative(v) THEN AddC(d.sum, One64)
             ELSE [sum |-> d.sum, carry |-> 0]
    IN  [u |-> e.sum, carry |-> d.carry + e.carry]

\* C17 -- zig-zag adapter: for every int64 v, the minimum and the maximum
\* included, Encoder.Int64 maps v >= 0 to 2v and v < 0 to 2(-v-1)+1
\* without overflow modulo 2^64 (0 -> 0, -1 -> 1, 1 -> 2, -2 -> 3), and
\* Decoder.Int64 reading the resulting blob returns v.
C17_ZigZag ==
    \A i \in 1..Len(srcs) :
        vals[i].kind = "int"
            => LET v == vals[i].v
               IN  /\ ZigZagOf(v).carry = 0
                   /\ MinimalBE(srcs[i], ZigZagOf(v).u)
                   /\ (v = Zero64 => srcs[i] = <<>>)
                   /\ (v = MinusOne64 => srcs[i] = Lit(<<1>>))
                   /\ (v = One64 => srcs[i] = Lit(<<2>>))
                   /\ (v = Sub64(Zero64, <<0, 0, 0, 2>>)
                          => srcs[i] = Lit(<<3>>))
                   /\ (ReadBack(i) /\ ints[i].kind = "int")
                          => (ints[i].err = "nil" /\ ints[i].v = v)

\* the minimum and the maximum int64 came back from Decoder.Int64
C17_Witness ==
    /\ Len(ints) = 2
    /\ ReadBack(2)
    /\ vals[1] = [kind |-> "int", v |-> <<Limb \div 2, 0, 0, 0>>]
    /\ srcs[1] = Rep(255, 8)
    /\ ints[1] = [kind |-> "int", v |-> <<Limb \div 2, 0, 0, 0>>,
                  err |-> "nil"]
    /\ ints[2] = [kind |-> "int",
                  v |-> <<(Limb \div 2) - 1, Limb - 1, Limb - 1, Limb - 1>>,
                  err |-> "nil"]

(***************************************************************************)
(* Properties of the small-only decoder (SpecRaw).                         *)
(***************************************************************************)
\* C18 -- small-only decoder: the small-only Decode returns the TooLong
\* error, with nil content and remainder, exactly when the buffer has at
\* least 2 bytes, its first byte is 0x81 and its second byte is below 0x80;
\* on every other buffer it returns the same content, remainder and error
\* as the full contiguous Decode.
C18_SmallOnly ==
    (cpc = "small" /\ Len(outs) = 1)
        => LET full == Decode(acc)
           IN  IF BLen(acc) >= 2 /\ At(acc, 0) = 129 /\ At(acc, 1) < 128
               THEN /\ outs[1].err = "TooLong"
                    /\ outs[1].content = <<>>
                    /\ buf = <<>>
               ELSE /\ outs[1].err = full.err
                    /\ outs[1].err # "TooLong"
                    /\ outs[1].content = full.content
                    /\ buf = full.remainder

\* the small-only Decode refused a buffer of the two bytes 81 00, on which
\* the full Decode returns EOF
C18_Witness ==
    /\ cpc = "small"
    /\ acc = Lit(<<129, 0>>)
    /\ outs[1].err = "TooLong"
    /\ Decode(acc).err = "EOF"

(***************************************************************************)
(* Properties of the older cbs package (SpecCbs).                          *)
(***************************************************************************)
RECURSIVE cbsEncodeAll(_, _)
\* ref = cbs.Encode(ref, s) for each s of ss in turn
cbsEncodeAll(dst, ss) ==
    IF ss = <<>> THEN dst
    ELSE cbsEncodeAll(cbsEncode(dst, Head(ss)), Tail(ss))

\* the header the cbs grammar gives a blob s shorter than 16384 bytes
CbsHeader(s) ==
    LET L == BLen(s)
    IN  IF L = 1 /\ At(s, 0) < 128 THEN <<>>
        ELSE IF L < 128 THEN <<128 + L>>
        ELSE <<129, (L - 128) \div 256, (L - 128) % 256>>

\* C19 -- older cbs variant: for every sequence of blobs each shorter than
\* 16384 bytes, a cbs streaming Encoder with its default chunk size, used
\* for all of them in turn on one sink, writes exactly the concatenation of
\* cbs.Encode(nil, blob) over the sequence: no header for a single byte
\* below 128, else 0x80+L for L < 128, else 0x81, (L-128)>>8, (L-128)&0xFF.
C19_CbsVariant ==
    (/\ epc = "idle"
     /\ ChunkLen = defaultChunkLen
     /\ Len(marks) = Len(srcs)
     /\ \A i \in 1..Len(srcs) : BLen(srcs[i]) < 16384)
        => /\ w = cbsEncodeAll(<<>>, srcs)
           /\ \A i \in 1..Len(srcs) :
                  /\ Written(i) = cbsEncode(<<>>, srcs[i])
                  /\ Written(i) = Cat(Lit(CbsHeader(srcs[i])), srcs[i])

\* a blob with a three-byte header and one with a one-byte header were
\* written one after the other
C19_Witness ==
    /\ epc = "idle"
    /\ Len(marks) = 2
    /\ srcs = <<Rep(0, 16383), Rep(0, 127)>>
    /\ Slice(w, 0, 3) = Lit(<<129, 63, 127>>)
    /\ BLen(w) = 3 + 16383 + 1 + 127

(***************************************************************************)
(* Properties of the bracket decoder (SpecCts).                            *)
(***************************************************************************)
\* t is UTF-8 text: the two bytes of U+00E9 occur only together, in order
IsText(t) ==
    \A k \in 1..Len(t) :
        /\ t[k] = 195 => (k < Len(t) /\ t[k + 1] = 169)
        /\ t[k] = 169 => (k > 1 /\ t[k - 1] = 195)

\* the position of the first bracket character of t, 0 if there is none
FirstBracket(t) ==
    IF \E k \in 1..Len(t) : t[k] \in {91, 93}
    THEN CHOOSE k \in 1..Len(t) :
             /\ t[k] \in {91, 93}
             /\ \A m \in 1..(k - 1) : t[m] \notin {91, 93}
    ELSE 0

\* open brackets minus close brackets in t[i..j]
Depth(t, i, j) ==
    Cardinality({k \in i..j : t[k] = 91})
        - Cardinality({k \in i..j : t[k] = 93})

\* the position of the closer that matches the open bracket at i, 0 if
\* the text ends before it
Matching(t, i) ==
    IF \E j \in (i + 1)..Len(t) : Depth(t, i, j) = 0
    THEN CHOOSE j \in (i + 1)..Len(t) :
             /\ Depth(t, i, j) = 0
             /\ \A m \in i..(j - 1) : Depth(t, i, m) > 0
    ELSE 0

\* what Decode is to return on a Decoder whose reader holds the text t
Bracketed(o, t) ==
    LET i == FirstBracket(t)
        j == IF i = 0 THEN 0 ELSE Matching(t, i)
    IN  IF i # 0 /\ t[i] = 91 /\ j # 0
        THEN /\ o.err = "nil"
             /\ o.head = SubSeq(t, 1, i - 1)
             /\ o.open = 91
             /\ o.close = 93
             /\ o.tail = SubSeq(t, i + 1, j - 1)
             /\ o.rem = SubSeq(t, j + 1, Len(t))
        ELSE o.err # "nil"

\* C20 -- bracket decoder: with the default configuration, on input whose
\* first bracket character is an open bracket that has a matching closer,
\* Decode returns as head the text before that bracket, the open and close
\* runes, and as tail the text strictly between the bracket and its
\* matching closer, nested pairs copied verbatim, and leaves the input
\* after the closer unread; it returns an error when the input ends before
\* the open bracket or before the matching closer, or when a close bracket
\* comes before any open bracket.
C20_Bracket ==
    (cpc = "cts" /\ IsText(cin))
        => \A k \in 1..Len(couts) :
               (\A m \in 1..(k - 1) : couts[m].err = "nil")
                   => Bracketed(couts[k], couts[k].from)

\* Decode returned a tail that holds a nested pair and a two-byte rune, and
\* left the text after the closer in the reader
C20_Witness ==
    /\ cpc = "cts"
    /\ Len(couts) = 1
    /\ cin = <<91, 91, 93, 195, 169, 93>>
    /\ couts[1].err = "nil"
    /\ couts[1].tail = <<91, 93, 195, 169>>
    /\ crd = <<>>

(***************************************************************************)
(* Properties of the header parsers (SpecRaw).                             *)
(***************************************************************************)
\* what a header parser returned when it found a whole header
Parsed(res, ofs, n, part) ==
    res.err = "nil" /\ res.ofs = ofs /\ res.n = n /\ res.part = part

\* what it returned when the buffer ended before the header did
NeedMore(res) == res.err = "EOF" /\ res.ofs = 0 /\ res.n = 0 /\ ~res.part

\* x & m for a mask m = 2^k - 1, and bit k of x
Low(x, k) == x % (2 ^ k)
Bit(x, k) == (x \div (2 ^ k)) % 2

\* the number of leading bytes of b that settle what decodeHeader returns
Settling(b) ==
    LET b0 == At(b, 0)
    IN  IF b = <<>> THEN 0
        ELSE IF b0 < 128 \/ (b0 # 129 /\ b0 < 192) THEN 1
        ELSE IF b0 >= 192 \/ (BLen(b) >= 2 /\ At(b, 1) >= 128) THEN 2
        ELSE 4

\* the decision tree on the parse q of the buffer q.from
DecisionTree(q) ==
    LET b  == q.from
        b0 == At(b, 0)
        b1 == At(b, 1)
        b2 == At(b, 2)
        b3 == At(b, 3)
        l  == BLen(b)
    IN  /\ l = 0 => NeedMore(q.res)
        /\ (l >= 1 /\ b0 < 128) => Parsed(q.res, 0, 1, FALSE)
        /\ (l >= 1 /\ b0 >= 128 /\ b0 # 129 /\ b0 < 192)
               => Parsed(q.res, 1, b0 - 128, FALSE)
        /\ (l = 1 /\ (b0 = 129 \/ b0 >= 192)) => NeedMore(q.res)
        /\ (l >= 2 /\ b0 = 129 /\ b1 >= 128) => Parsed(q.res, 1, 1, FALSE)
        /\ (l >= 2 /\ b0 >= 192)
               => Parsed(q.res, 2, 64 + Low(b0, 6) * 256 + b1, FALSE)
        /\ (l \in {2, 3} /\ b0 = 129 /\ b1 < 128) => NeedMore(q.res)
        /\ (l >= 4 /\ b0 = 129 /\ b1 < 128)
               => Parsed(q.res, 4,
                         16448 + Low(b1, 6) * 65536 + b2 * 256 + b3,
                         Bit(b1, 6) = 1)
        /\ l >= Settling(b)
               => q.res = decodeHeader(Take(b, Settling(b)))

Header(q, n, part, k) ==
    /\ q.res.err = "nil"
    /\ q.res.n = n
    /\ q.res.part = part
    /\ q.res.rest = Drop(q.from, k)

\* the cases of Decoder.header on the parse q
StreamHeader(q) ==
    LET b  == q.from
        b0 == At(b, 0)
        b1 == At(b, 1)
        b2 == At(b, 2)
        b3 == At(b, 3)
        l  == BLen(b)
        big == 16384 + Low(b1, 5) * 65536 + b2 * 256 + b3
    IN  /\ (l >= 1 /\ b0 < 128)
               => (Header(q, 1, FALSE, 0) /\ At(q.res.rest, 0) = b0)
        /\ (l >= 1 /\ b0 >= 128 /\ b0 # 129)
               => Header(q, b0 - 128, FALSE, 1)
        /\ (l >= 2 /\ b0 = 129 /\ b1 >= 128)
               => (Header(q, 1, FALSE, 1) /\ At(q.res.rest, 0) = b1)
        /\ (l >= 3 /\ b0 = 129 /\ b1 < 64)
               => Header(q, 128 + b1 * 256 + b2, FALSE, 3)
        /\ (l >= 4 /\ b0 = 129 /\ b1 >= 64 /\ b1 <= 95)
               => Header(q, big, FALSE, 4)
        /\ (l >= 4 /\ b0 = 129 /\ b1 >= 96 /\ b1 <= 127)
               => Header(q, big, TRUE, 4)

\* the copy that follows a header call starts at the byte the call left
\* the reader at: the content of a one-chunk blob is the n bytes there
PayloadNext ==
    (Len(hdrs) = 1 /\ Len(outs) = 1 /\ outs[1].err = "nil")
        => outs[1].content = Take(hdrs[1].res.rest, hdrs[1].res.n)

ChunkStep == epc = "loop" /\ Len(chunks') = Len(chunks) + 1

\* the chunk size of the running ReadFrom: chunkLen := len(buf) - 4
RunLen == ebufLen - 4

\* the role of the chunk written in a step follows the number of bytes
\* read and the error of the read: partial, and one more iteration, exactly
\* when the read filled the chunk and reported no end of input
RoleBySignal ==
    ChunkStep
        => LET c == chunks'[Len(chunks')]
               rd == ReadFull(r, RunLen)
           IN  /\ c.l = rd.l
               /\ c.part <=> (rd.l = RunLen /\ rd.err = "nil")
               /\ c.part <=> epc' = "loop"
               /\ ~c.part <=> epc' = "idle"

\* a chunk that holds the last bytes of the source is final
LastBytesFinal ==
    ChunkStep
        => LET c == chunks'[Len(chunks')]
           IN  (c.l > 0 /\ r' = <<>>) => (~c.part /\ epc' = "idle")

\* a chunk that holds the last bytes of the source is final unless it has
\* the chunk size, and then it is partial and the next chunk is the empty
\* final chunk, the byte 0x80
LastBytesFull ==
    ChunkStep
        => LET c == chunks'[Len(chunks')]
           IN  /\ (c.l > 0 /\ r' = <<>>)
                      => IF c.l = RunLen THEN c.part /\ epc' = "loop"
                         ELSE ~c.part /\ epc' = "idle"
               /\ (chunks # <<>> /\ r = <<>>)
                      => /\ c.l = 0 /\ ~c.part /\ epc' = "idle"
                         /\ Drop(w', BLen(w)) = Lit(<<128>>)
                         /\ chunks[Len(chunks)].l = RunLen

Returned0 ==
    /\ epc = "idle"
    /\ srcs # <<>>
    /\ Len(marks) = Len(srcs)
    /\ eret[Len(eret)].err = "nil"

IOFaults == {"read", "write", "short"}

\* what a step does when the source or the sink fails in it, and what the
\* call does after that
FailStep ==
    /\ \A io \in IOFaults :
           ReadFromIter(io)
               => LET rd == ReadFull(r, RunLen)
                      ch == chunkHeader(ehdr, rd.l, rd.err, RunLen, rd.data)
                  IN  /\ epc' = "failed"
                      /\ Len(eret') = Len(eret) + 1
                      /\ eret'[Len(eret')].n = 0
                      /\ eret'[Len(eret')].err # "nil"
                      /\ Take(w', BLen(w)) = w
                      /\ chunks' = chunks /\ marks' = marks
                      /\ io \in {"read", "write"} => w' = w
                      /\ io = "read" => r' = r
                      /\ io = "short"
                             => BLen(w') < BLen(w) + (4 - ch.h) + rd.l
    /\ epc = "failed" => (w' = w /\ r' = r /\ eret' = eret)

\* C25 -- Encoder I/O failure: if the source returns an error other than
\* end-of-input, or the sink returns an error, or the sink accepts fewer
\* bytes than the chunk handed to it, ReadFrom returns at once with a
\* non-nil error and byte count 0, performs no further source read or sink
\* write, and does not write the chunk whose read failed; chunks already
\* written stay in the sink.
C25_IOFailure == [][FailStep]_vars

\* the sink took one byte less than the final chunk after it had taken two
\* partial chunks, which are still there
C25_Witness ==
    /\ epc = "failed"
    /\ eret[Len(eret)] = [n |-> 0, err |-> "short write"]
    /\ Len(chunks) = 2
    /\ tot = 2 * ChunkLen
    /\ Len(srcs) = 1
    /\ BLen(srcs[1]) = 2 * ChunkLen
    /\ BLen(w) = 2 * (4 + ChunkLen)

\* the header of the chunk a step wrote: its length field holds the whole
\* length and leaves the flag bits of the second byte alone, and
\* Decoder.header reads the length and the role back
FieldsStep ==
    ChunkStep
        => LET c == chunks'[Len(chunks')]
               out == Drop(w', BLen(w))
               b0 == At(out, 0)
               b1 == At(out, 1)
               b2 == At(out, 2)
               b3 == At(out, 3)
               back == header(out)
           IN  /\ c.h = 0
                      => /\ b0 = 129
                         /\ epc' = "idle" => (64 <= b1 /\ b1 <= 95)
                         /\ epc' = "loop" => (96 <= b1 /\ b1 <= 127)
                         /\ c.l - 16384 < 2 ^ 21
                         /\ Low(b1, 5) * 65536 + b2 * 256 + b3
                                = c.l - 16384
               /\ c.h = 1
                      => /\ b0 = 129
                         /\ 0 <= b1 /\ b1 <= 63
                         /\ b1 * 256 + b2 = c.l - 128
               /\ c.h \in {0, 1}
                      => /\ back.err = "nil"
                         /\ back.n = c.l
                         /\ back.part <=> epc' = "loop"

EmitStep ==
    (ChunkStep /\ epc' = "idle")
        => LET c == chunks'[Len(chunks')]
               p == Take(r, c.l)
               L == c.l
           IN  /\ Drop(w', BLen(w)) = Cat(Lit(EmitTable(p)), p)
               /\ c.h = IF L = 1 /\ At(p, 0) < 128 THEN 4
                         ELSE IF L <= 63 THEN 3
                         ELSE IF L <= 16447 THEN 2
                         ELSE 0

\* C30 -- streaming final-chunk header choice: for a final chunk of payload
\* length L the streaming Encoder writes no header when L = 1 and the byte
\* is below 128, a 1-byte header when L <= 63 otherwise, a 2-byte header
\* with length field L - 64 for 64 <= L <= 16447, and a 4-byte header with
\* length field L - 16448 for L >= 16448, flushing the buffer from offset
\* 4, 3, 2 and 0 respectively.
C30_FinalHeader == [][EmitStep]_vars

(***************************************************************************)
(* Properties of the streaming Decoder on a cut stream (SpecCut).          *)
(***************************************************************************)
\* the payload bytes among the first x bytes of the blob the latest
\* ReadFrom call wrote: those of whole chunks and of a chunk begun
PayloadIn(x) ==
    LET c == ChunkLen
        k == Len(chunks) - 1
        hl == 4 - chunks[Len(chunks)].h
        in(y, h) == IF y > h THEN y - h ELSE 0
    IN  IF x < k * (4 + c)
        THEN (x \div (4 + c)) * c + in(x % (4 + c), 4)
        ELSE k * c + in(x - k * (4 + c), hl)

\* the Bytes calls on a stream cut after BLen(din) bytes: a blob that lies
\* before the cut is returned, a blob the cut lies in gives EOF, nil and
\* the byte count 0, and the buffer of that call keeps what was copied
CutCalls ==
    \A i \in 1..Len(outs) :
        LET n == BLen(din)
            lo == IF i = 1 THEN 0 ELSE marks[i - 1]
        IN  /\ (i <= Len(marks) /\ marks[i] <= n)
                   => Returned(outs[i], srcs[i])
            /\ (i <= Len(marks) /\ lo < n /\ n < marks[i])
                   => /\ outs[i].err = "EOF"
                      /\ outs[i].content = <<>>
                      /\ outs[i].n = 0
                      /\ (i = Len(marks) /\ i = Len(outs) /\ dpc = "idle")
                             => /\ dw = Take(srcs[i], PayloadIn(n - lo))
                                /\ dr = <<>>

\* C26 -- Decoder truncation: if the input of the streaming Decoder ends
\* inside the header or inside the payload of any chunk of a blob, WriteTo
\* returns the EOF error with byte count 0 and Bytes returns nil with that
\* error; the payload bytes of earlier chunks and of the cut chunk that
\* were already copied to the sink remain there.
C26_DecoderCut == dfrom = "cut" => CutCalls

\* the stream ended one byte into the payload of the second chunk: Bytes
\* returned EOF and its buffer holds the first chunk's payload and a byte
C26_Witness ==
    /\ dfrom = "cut"
    /\ dpc = "idle"
    /\ Len(srcs) = 1
    /\ Len(outs) = 1
    /\ BLen(din) = 4 + ChunkLen + 5
    /\ outs[1].err = "EOF"
    /\ BLen(dw) = ChunkLen + 1

(***************************************************************************)
(* Properties of Encode on the largest blobs (SpecContig).                 *)
(***************************************************************************)
\* C27 -- oversized fallback: for src of 4210752 bytes or more, Encode(dst,
\* src) is dst followed by what the streaming Encoder writes for src at the
\* largest chunk size, and that is an encoding in the contiguous grammar:
\* Decode applied to Encode(nil, src) returns src and an empty remainder.
C27_Fallback ==
    (/\ cpc = "dec" /\ dfrom = "none"
     /\ Len(srcs) = 1 /\ Len(outs) = 1
     /\ BLen(srcs[1]) >= 4210752)
        => /\ acc = ReadFromAll(<<>>, <<0, 0, 0, 0>>, MaxChunkLen, srcs[1])
           /\ outs[1].err = "nil"
           /\ outs[1].content = srcs[1]
           /\ outs[1].used = BLen(acc)
           /\ buf = <<>>

(***************************************************************************)
(* Properties of what Decode returns (SpecRaw).                            *)
(***************************************************************************)
\* the latest Decode call, given the buffer b, succeeded with o and left
\* the remainder in buf: when the first chunk of b is final, content and
\* remainder are the two slices of b around offset ofs + n; content is
\* storage of its own exactly when the first chunk is partial
Borrowed(b, h, o) ==
    /\ ~h.part
           => /\ ~o.owned
              /\ o.content = Slice(b, h.ofs, h.ofs + h.n)
              /\ buf = Drop(b, h.ofs + h.n)
              /\ h.ofs + BLen(o.content) + BLen(buf) = BLen(b)
              /\ o.used = h.ofs + h.n
    /\ o.owned <=> h.part

\* C28 -- single-chunk borrow: when the first chunk in the buffer is final
\* and complete, Decode returns content = buf[ofs : ofs+n] and remainder =
\* buf[ofs+n :] as positions in the caller's buffer, so that ofs +
\* |content| + |remainder| = |buf| and the two do not overlap, and no byte
\* of the buffer is modified; content is freshly allocated storage only
\* when at least one partial chunk preceded the final chunk.
C28_Borrow ==
    /\ [](((cpc = "raw" /\ outs # <<>> /\ outs[Len(outs)].err = "nil")
              => Borrowed(hdrs[1].from, hdrs[1].res, outs[Len(outs)])))
    /\ [][cpc = "raw" => acc' = acc]_vars

\* Decode returned the 64 bytes after a two-byte header and left the one
\* byte after them as the remainder, both inside the caller's buffer
C28_Witness ==
    /\ cpc = "raw"
    /\ Len(outs) = 1
    /\ outs[1].err = "nil"
    /\ ~outs[1].owned
    /\ hdrs[1].res.ofs = 2
    /\ BLen(outs[1].content) = 64
    /\ BLen(buf) = 1
    /\ BLen(acc) = 67

====
